---- MODULE Spec2Model ----
(***************************************************************************)
(* Patrol: a periodic web-change detector.                                 *)
(*                                                                         *)
(* The module models                                                       *)
(*   - the data store  (infrastructure/data_repository/                    *)
(*                      toml_data_repository.rs): the in-memory map, the   *)
(*     persisted file, update / update_multiple with restore on a failed   *)
(*     save, and                                                           *)
(*   - the patrol engine (application/app.rs, App::run): admission, tick,  *)
(*     fan-out with bounded retry under a deadline, report.                *)
(*                                                                         *)
(* Two specifications are given:                                           *)
(*   StoreSpec  any sequence of data-store calls under a non-decreasing    *)
(*              clock, from an empty store;                                *)
(*   Spec       the engine driving the pollers and the data store.         *)
(***************************************************************************)
EXTENDS Integers, Sequences, FiniteSets, TLC

(***************************************************************************)
(* Bounds of the model and program constants                               *)
(***************************************************************************)

\* the clock runs over 0..MaxTime
MaxTime == 1

\* largest value of the engine's tick limit (Some(0)..Some(MaxLimit), or None)
MaxLimit == 1

MaxPorts == 2

MaxCalls == 3

\* the events published in a run of the broadcaster
MaxEvents == 4

\* the capacity of the broadcast channel (main.rs:93 has 100)
Capacity == 2

\* the bytes of a Hash in the model (hash.rs:5 has 32)
HashLen == 1

\* the factor between the units of time in the model (timestamp.rs has
\* 1_000 between them)
Kilo == 2

\* a mutation of the retry budget: one attempt fewer
RetryInitTwo == 3 - 1

\* app.rs:85  let mut retry = 3;
RetryInit == 3

\* the interval period, in clock units (app.rs:36, main.rs:79)
Period == 1

\* the target ids used as inputs, in the order the serializer emits them
IdOrder == <<"a", "b">>

Ids == {IdOrder[i] : i \in DOMAIN IdOrder}

(***************************************************************************)
(* Option values: None is the empty tuple, Some(x) the 1-tuple.            *)
(***************************************************************************)
None == <<>>

Some(x) == <<x>>

\* the value of the unit type ()
Unit == <<"(", ")">>

(***************************************************************************)
(* Strings are sequences of characters; " " stands for any whitespace.     *)
(***************************************************************************)
Space == " "

\* contents handed to the store or returned by a poll
Contents == { <<" ">>, <<"a">>, <<" ", "a">>, <<"b">> }

\* str::trim_start
RECURSIVE trim_start(_)
trim_start(s) ==
    IF s = <<>> THEN <<>>
    ELSE IF Head(s) = Space THEN trim_start(Tail(s))
    ELSE s

\* str::trim_end
RECURSIVE trim_end(_)
trim_end(s) ==
    IF s = <<>> THEN <<>>
    ELSE IF s[Len(s)] = Space THEN trim_end(SubSeq(s, 1, Len(s) - 1))
    ELSE s

\* content.trim_start().trim_end()
Trim(s) == trim_end(trim_start(s))

\* Hash::new (hash.rs:11-15): SHA-256 of the bytes.  The digest is modelled
\* by its text, the input marked with one "#" per application; it is
\* injective on the inputs of the model and never blank.
Hash(bytes) == <<"#">> \o bytes

(***************************************************************************)
(* State                                                                   *)
(***************************************************************************)
VARIABLES
    clock,      \* the current time (Timestamp::now, tokio Instant)
    map,        \* TomlDataRepository.map : key -> Data
    file,       \* content of the data file: a sequence of <<key, Data>>
    ret,        \* the last data-store call and what it returned
    config,     \* the config store: the ids it holds (TomlConfigRepository)
    events,     \* the DocUpdate events sent so far (main.rs:91-92)
    pc,         \* where App::run stands
    limit,      \* App.limit : Option<u8>
    nextTick,   \* the instant of the next interval tick
    deadline,   \* now + period of the current tick
    configs,    \* the config snapshot of the current tick
    rem,        \* the ids still to be polled in the current tick
    retry,      \* the retry counter of the current tick
    running,    \* ids whose poll task of the current stream has not finished
    chan,       \* per substream, the results sent and not yet taken
    polls,      \* per id, the poll_multiple calls of this tick that held it
    upd,        \* per id, the data-store updates issued in this tick
    nonErr,     \* ids of which some poll of this tick did not fail
    expired,    \* the deadline has elapsed on a stream of this tick
    lateCalls,  \* poll_multiple calls of this tick made after that
    last,       \* the last poll result the engine handled in this tick
    limit0,     \* the limit App::new was given
    ticks,      \* the ticks run has begun (interval.tick() returned)
    seen,       \* per id, the trimmed content of its last successful update
    ports,      \* the number of ports ClientPool::new was given
    idle,       \* the clients in the pool's channel, oldest first
    holder,     \* the task that holds the lock of lending_port
    waiters,    \* the tasks queued on that lock, oldest first
    lease,      \* per task, the client of the PoolItem it holds
    arrival,    \* the tasks inside get(), in the order they entered it
    lastGet,    \* the last get() that returned and how many were ahead of it
    lastExit,   \* how the task of the last dropped PoolItem ended
    alive,      \* the actor's task runs and holds rx_message
    mbox,       \* the messages in the actor's channel, oldest first
    cur,        \* the message the actor's loop holds, and its result once known
    reply,      \* per request, the state of its oneshot reply channel
    call,       \* per client handle, the request whose reply it awaits
    made,       \* per client handle, the calls it has made
    out,        \* per client handle, the last call that returned and its result
    arrived,    \* the requests in the order they entered the channel
    applied,    \* the requests in the order the store executed them
    inner,      \* per request, what the store returned for it
    given,      \* the map SelectivePoller::poll_multiple was called with
    handed,     \* per subpoller, the ids of the map it was called with
    subrun,     \* per subpoller, the ids whose poll task has not finished
    subchan,    \* per subpoller, the results sent into its channel, not yet taken
    merged,     \* what the merged stream has yielded, first to last
    spc,        \* where the call and its stream stand
    cfile,      \* the text of the config file, one table per id
    cpos,       \* the position of the config store's file handle in it
    cache,      \* TomlFileProxy.cache : Option<HashMap<Id, TomlConfig>>
    cret,       \* the last config-store call and what it returned
    srcq,       \* the DocUpdate events in the source channel, oldest first
    published,  \* the events sent into the source channel so far
    bsent,      \* the messages sent on the broadcast channel, oldest first
    wsub,       \* per WebSocket client, where its handler stands
    cursor,     \* per client, the position of its receiver in bsent
    since,      \* per client, the events published when it subscribed
    got,        \* per client, the messages sent to its socket, in order
    hin,        \* a Hash: its bytes
    htext,      \* a string: the bytes of its UTF-8 text
    hres,       \* what from_hash_str returned for htext, once called
    wjob,       \* per task, the id and the poll_multiple call it was spawned for
    wstage,     \* per task, how far its body has run
    wcall,      \* the poll_multiple calls made on the WebDriverPoller
    wlive,      \* the caller still holds the stream of the last call
    wchan,      \* the results in the channel of the last call's stream
    wrem,       \* the caller's rem
    wdropped,   \* the calls whose stream was dropped on a time-out
    tkind,      \* the unit of a unix time handed to Timestamp: secs, millis, nanos
    tin,        \* that unix time
    tval,       \* the Timestamp made from it, or the panic of making it
    tout,       \* what unix_secs / unix_millis / unix_nanos gave for the Timestamp
    qstate,     \* main's select: running, or quit (run's future dropped)
    qold,       \* the data file's text before the update that quit cut short
    qnew        \* the text that update was to write

storeVars == <<map, file, ret>>

engineVars == <<config, events, pc, limit, nextTick, deadline, configs, rem,
                retry, running, chan, polls, upd, nonErr, expired, lateCalls,
                last, limit0, ticks, seen>>

poolVars == <<ports, idle, holder, waiters, lease, arrival, lastGet, lastExit>>

\* the state of the components App::run does not touch
actorVars == <<alive, mbox, cur, reply, call, made, out, arrived, applied, inner>>

selVars == <<given, handed, subrun, subchan, merged, spc>>

cfgVars == <<cfile, cpos, cache, cret>>

\* the state of the components that stand beside the engine, its data store,
\* the pool, the actor and the poller
busVars == <<srcq, published, bsent, wsub, cursor, since, got>>

hashVars == <<hin, htext, hres>>

wdVars == <<wjob, wstage, wcall, wlive, wchan, wrem, wdropped>>

tsVars == <<tkind, tin, tval, tout>>

\* the components added last
quitVars == <<qstate, qold, qnew>>

moreVars == <<tsVars, quitVars>>

sideVars == <<cfgVars, busVars, hashVars, wdVars, moreVars>>

apartVars == <<poolVars, actorVars, selVars, sideVars>>

vars == <<clock, storeVars, engineVars, apartVars>>

\* Data (domain/models/mod.rs:25-29)
Data(hash, last_updated, last_checked) ==
    [hash |-> hash, last_updated |-> last_updated, last_checked |-> last_checked]

EmptyMap == [k \in {} |-> None]

\* HashMap::insert
Insert(m, key, data) == [k \in DOMAIN m \cup {key} |-> IF k = key THEN data ELSE m[k]]

\* HashMap::remove
Remove(m, key) == [k \in DOMAIN m \ {key} |-> m[k]]

\* HashMap::get(..).cloned()
Get(m, key) == IF key \in DOMAIN m THEN Some(m[key]) ELSE None

(***************************************************************************)
(* Serialization of the map (toml::to_string_pretty / toml::from_str)      *)
(***************************************************************************)
\* toml::to_string_pretty(map): one table per key
ToToml(m) ==
    LET keys == SelectSeq(IdOrder, LAMBDA k : k \in DOMAIN m)
    IN  [i \in 1..Len(keys) |-> <<keys[i], m[keys[i]]>>]

\* toml::from_str: the map of the tables in the text
FromToml(f) ==
    [k \in {f[i][1] : i \in DOMAIN f} |->
        LET i == CHOOSE j \in DOMAIN f : f[j][1] = k IN f[i][2]]

\* the prefixes of a text, the text itself included
Prefixes(f) == {SubSeq(f, 1, n) : n \in 0..Len(f)}

\* the steps of save() that can fail (toml_data_repository.rs:40-44)
SaveSteps == {"seek", "set_len", "write_all", "flush"}

SaveOutcomes == {"ok"} \cup SaveSteps

\* TomlDataRepository::save: the file contents a save of map m can leave
\* behind when it ends in outcome o.  seek and set_len fail before the file
\* is touched; write_all and flush (which reports the error of the write
\* still in flight) fail after set_len(0) truncated the file, with a proper
\* prefix of the text written.
save(m, old, o) ==
    CASE o = "ok"        -> {ToToml(m)}
      [] o = "seek"      -> {old}
      [] o = "set_len"   -> {old}
      [] o = "write_all" -> Prefixes(ToToml(m)) \ {ToToml(m)}
      [] o = "flush"     -> Prefixes(ToToml(m)) \ {ToToml(m)}

(***************************************************************************)
(* update_map / restore                                                    *)
(***************************************************************************)
\* a mutation of update_map that leaves last_checked of an existing record
update_map_stale_check(m, key, content, now) ==
    LET old == Get(m, key)
        data0 == IF old # None THEN old[1] ELSE Data(None, None, now)
        c == Trim(content)
        data == IF Len(c) <= 0 THEN data0
                ELSE LET hash == Hash(c)
                     IN  [data0 EXCEPT !.hash = Some(hash),
                             !.last_updated =
                                 IF data0.hash # Some(hash) THEN Some(now) ELSE @]
    IN  [map |-> Insert(m, key, data), info |-> [key |-> key, data |-> old]]

\* a mutation of update_map that starts from a fresh record every time
update_map_fresh(m, key, content, now) ==
    LET old == Get(m, key)
        data1 == Data(None, None, now)
        c == Trim(content)
        data == IF Len(c) <= 0 THEN data1
                ELSE LET hash == Hash(c)
                     IN  [data1 EXCEPT !.hash = Some(hash),
                             !.last_updated =
                                 IF data1.hash # Some(hash) THEN Some(now) ELSE @]
    IN  [map |-> Insert(m, key, data), info |-> [key |-> key, data |-> old]]

\* a mutation of update_map that marks every non-empty content as a change
update_map_always_changed(m, key, content, now) ==
    LET old == Get(m, key)
        data0 == IF old # None THEN old[1] ELSE Data(None, None, now)
        data1 == [data0 EXCEPT !.last_checked = now]
        c == Trim(content)
        data == IF Len(c) <= 0 THEN data1
                ELSE LET hash == Hash(c)
                     IN  [data1 EXCEPT !.hash = Some(hash),
                                       !.last_updated = Some(now)]
    IN  [map |-> Insert(m, key, data), info |-> [key |-> key, data |-> old]]

\* TomlDataRepository::update_map: the new map and the RestoreInfo
update_map(m, key, content, now) ==
    LET old == Get(m, key)
        data0 == IF old # None THEN old[1] ELSE Data(None, None, now)
        data1 == [data0 EXCEPT !.last_checked = now]
        c == Trim(content)
        data == IF Len(c) <= 0 THEN data1
                ELSE LET hash == Hash(c)
                     IN  [data1 EXCEPT !.hash = Some(hash),
                             !.last_updated =
                                 IF data1.hash # Some(hash) THEN Some(now) ELSE @]
    IN  [map |-> Insert(m, key, data), info |-> [key |-> key, data |-> old]]

\* a mutation of restore that treats every key as newly created
restore_as_created(m, info) == Remove(m, info.key)

\* TomlDataRepository::restore
restore(m, info) ==
    IF info.data # None THEN Insert(m, info.key, info.data[1])
    ELSE Remove(m, info.key)

\* restore applied to a list of RestoreInfo, first to last
RECURSIVE restore_all(_, _)
restore_all(m, infos) ==
    IF infos = <<>> THEN m
    ELSE restore_all(restore(m, Head(infos)), Tail(infos))

\* update_map applied to the entries of a batch in the order keys
RECURSIVE update_all(_, _, _, _)
update_all(m, batch, keys, now) ==
    IF keys = <<>> THEN [map |-> m, infos |-> <<>>]
    ELSE LET r == update_map(m, Head(keys), batch[Head(keys)], now)
             rest == update_all(r.map, batch, Tail(keys), now)
         IN  [map |-> rest.map, infos |-> <<r.info>> \o rest.infos]

(***************************************************************************)
(* The data-store calls                                                    *)
(***************************************************************************)
Ok(v) == [ok |-> TRUE, val |-> v]

Err(e) == [ok |-> FALSE, val |-> e]

\* std::io::Error, the error of every failed step of save
IoError == "io"

Call(op, res) == [op |-> op, res |-> res]

\* DataRepository::update for TomlDataRepository
update(key, content, o) ==
    LET now == clock
        r == update_map(map, key, content, now)
    IN  /\ file' \in save(r.map, file, o)
        /\ IF o # "ok"
           THEN /\ map' = restore(r.map, r.info)
                /\ ret' = Call("update", Err(IoError))
           ELSE /\ map' = r.map
                /\ ret' = Call("update", Ok(Unit))

\* DataRepository::update_multiple for TomlDataRepository; keys is the
\* iteration order of the HashMap batch
update_multiple(batch, keys, o) ==
    LET now == clock
        r == update_all(map, batch, keys, now)
    IN  /\ file' \in save(r.map, file, o)
        /\ IF o # "ok"
           THEN /\ map' = restore_all(r.map, r.infos)
                /\ ret' = Call("update_multiple", Err(IoError))
           ELSE /\ map' = r.map
                /\ ret' = Call("update_multiple", Ok(Unit))

\* DataRepository::delete (domain/data_repository.rs:15) has no
\* implementation for TomlDataRepository; it follows the store contract:
\* capture the prior value, remove, save, re-install on a failed save.
delete(key, o) ==
    LET now == clock
        old == Get(map, key)
        m1 == Remove(map, key)
    IN  /\ file' \in save(m1, file, o)
        /\ IF o # "ok"
           THEN /\ map' = restore(m1, [key |-> key, data |-> old])
                /\ ret' = Call("delete", Err(IoError))
           ELSE /\ map' = m1
                /\ ret' = Call("delete", Ok(old))

\* the orders in which a HashMap with the keys S can be iterated
Orders(S) ==
    {s \in UNION {[1..n -> S] : n \in {Cardinality(S)}} :
        \A i, j \in DOMAIN s : i # j => s[i] # s[j]}

Batches == UNION {[S -> Contents] : S \in SUBSET Ids}

\* time passes; the clock never goes back
Advance ==
    /\ clock < MaxTime
    /\ clock' = clock + 1

\* TomlDataRepository::new on an empty (just created) data file
StoreNew ==
    /\ clock = 0
    /\ map = FromToml(<<>>)
    /\ file = <<>>
    /\ ret = Call("new", Ok(Unit))

(***************************************************************************)
(* The pollers and the patrol engine (App::run)                            *)
(***************************************************************************)
Modes == {"simple", "full"}

\* the Config of a target (domain/models/mod.rs:16-22)
ConfigOf(id) ==
    [url |-> <<"u", id>>, mode |-> IF id = "a" THEN "simple" ELSE "full"]

\* ConfigRepository::get_all: the snapshot of the targets
get_all_configs(ids) == [id \in ids |-> ConfigOf(id)]

\* what a poll can return: a content (a blank one, one with whitespace around
\* it, another one) or a poller error
PollResults == {Ok(c) : c \in Contents \ {<<"a">>}} \cup {Err("poll")}

NoChan == [m \in Modes |-> <<>>]

NoCount == [id \in Ids |-> 0]

NoLast == [kind |-> "none", id |-> ""]

\* the mark of a tick whose config snapshot could not be read
ConfigErr == [kind |-> "config_err", id |-> ""]

\* the mark of a tick whose report could not read the data store
DataReadErr == [kind |-> "data_err", id |-> ""]

NoSeen == [id \in Ids |-> None]

\* app.rs:104  content.len() <= 0, mutated to accept every content
IsEmptyContentNever(content) == FALSE

\* app.rs:104  content.len() <= 0
IsEmptyContent(content) == Len(content) <= 0

\* App::new and the state of run before its loop
EngineNew ==
    /\ config \in SUBSET Ids
    /\ events = <<>>
    /\ pc = "loop"
    /\ limit \in {None} \cup {Some(n) : n \in 0..MaxLimit}
    /\ limit0 = limit
    /\ nextTick = 0
    /\ deadline = 0
    /\ configs = get_all_configs({})
    /\ rem = {}
    /\ retry = 0
    /\ running = {}
    /\ chan = NoChan
    /\ polls = NoCount
    /\ upd = NoCount
    /\ nonErr = {}
    /\ expired = FALSE
    /\ lateCalls = 0
    /\ last = NoLast
    /\ ticks = 0
    /\ seen = NoSeen

tickVars == <<nextTick, deadline, configs, ticks>>

histVars == <<polls, upd, nonErr, expired, lateCalls, last>>

\* app.rs:69-70  Some(0) => break; run returns Ok(())
AdmitBreak ==
    /\ pc = "loop"
    /\ limit = Some(0)
    /\ pc' = "done"
    /\ UNCHANGED <<clock, storeVars, config, limit0, seen, apartVars, events, limit, tickVars, rem,
                   retry, running, chan, histVars>>

\* a mutation of Admit that forgets to count the tick down
AdmitKeepsLimit ==
    /\ pc = "loop"
    /\ limit # Some(0)
    /\ pc' = "tick"
    /\ UNCHANGED <<clock, storeVars, config, limit0, seen, apartVars, events, limit,
                   tickVars, rem, retry, running, chan, histVars>>

\* app.rs:71-75  Some(x) => *x -= 1; None => ()
Admit ==
    /\ pc = "loop"
    /\ limit # Some(0)
    /\ limit' = IF limit = None THEN None ELSE Some(limit[1] - 1)
    /\ pc' = "tick"
    /\ UNCHANGED <<clock, storeVars, config, limit0, seen, apartVars, events, tickVars, rem, retry,
                   running, chan, histVars>>

\* a mutation of Tick: the interval schedules its next tick a period after
\* the time at which this one was taken (MissedTickBehavior::Delay)
TickDelays ==
    /\ pc = "tick"
    /\ clock >= nextTick
    /\ deadline' = nextTick + Period
    /\ nextTick' = clock + Period
    /\ configs' = get_all_configs(config)
    /\ rem' = DOMAIN configs'
    /\ retry' = RetryInit
    /\ polls' = NoCount
    /\ upd' = NoCount
    /\ nonErr' = {}
    /\ expired' = FALSE
    /\ lateCalls' = 0
    /\ last' = NoLast
    /\ ticks' = ticks + 1
    /\ pc' = "while"
    /\ UNCHANGED <<clock, storeVars, config, limit0, seen, apartVars, events, limit, running, chan>>

\* app.rs:76-85  interval.tick(), the deadline, the snapshot, rem and retry
Tick ==
    /\ pc = "tick"
    /\ clock >= nextTick
    /\ deadline' = nextTick + Period
    /\ nextTick' = nextTick + Period
    /\ configs' = get_all_configs(config)
    /\ rem' = DOMAIN configs'
    /\ retry' = RetryInit
    /\ polls' = NoCount
    /\ upd' = NoCount
    /\ nonErr' = {}
    /\ expired' = FALSE
    /\ lateCalls' = 0
    /\ last' = NoLast
    /\ ticks' = ticks + 1
    /\ pc' = "while"
    /\ UNCHANGED <<clock, storeVars, config, limit0, seen, apartVars, events, limit, running, chan>>

\* a mutation of TickConfigError that logs the error and goes on to the
\* next iteration of the loop
TickConfigErrorWarns ==
    /\ pc = "tick"
    /\ clock >= nextTick
    /\ deadline' = nextTick + Period
    /\ nextTick' = nextTick + Period
    /\ ticks' = ticks + 1
    /\ polls' = NoCount
    /\ upd' = NoCount
    /\ nonErr' = {}
    /\ expired' = FALSE
    /\ lateCalls' = 0
    /\ last' = ConfigErr
    /\ pc' = "loop"
    /\ UNCHANGED <<clock, storeVars, config, limit0, seen, apartVars, events, limit,
                   configs, rem, retry, running, chan>>

\* app.rs:76-82  interval.tick(), the deadline, then config_repo.get_all()
\* returns Err: `?` makes run return Err(Error::ConfigRepositoryError(e))
TickConfigError ==
    /\ pc = "tick"
    /\ clock >= nextTick
    /\ deadline' = nextTick + Period
    /\ nextTick' = nextTick + Period
    /\ ticks' = ticks + 1
    /\ polls' = NoCount
    /\ upd' = NoCount
    /\ nonErr' = {}
    /\ expired' = FALSE
    /\ lateCalls' = 0
    /\ last' = ConfigErr
    /\ pc' = "failed"
    /\ UNCHANGED <<clock, storeVars, config, limit0, seen, apartVars, events, limit,
                   configs, rem, retry, running, chan>>

\* a mutation of StartPoll that hands the whole snapshot to every call
StartPollAll ==
    /\ pc = "while"
    /\ 0 < Cardinality(rem) /\ 0 < retry
    /\ running' = DOMAIN configs
    /\ chan' = NoChan
    /\ polls' = [id \in Ids |-> IF id \in DOMAIN configs THEN polls[id] + 1 ELSE polls[id]]
    /\ lateCalls' = IF expired THEN lateCalls + 1 ELSE lateCalls
    /\ pc' = "stream"
    /\ UNCHANGED <<clock, storeVars, config, limit0, seen, apartVars, events, limit, tickVars, rem,
                   retry, upd, nonErr, expired, last>>

\* app.rs:87-89  the loop condition holds: poll_multiple(rem.clone()) spawns
\* one poll task per id of rem (http_poller.rs:33-40, webdriver_poller.rs:75-98)
StartPoll ==
    /\ pc = "while"
    /\ 0 < Cardinality(rem) /\ 0 < retry
    /\ running' = rem
    /\ chan' = NoChan
    /\ polls' = [id \in Ids |-> IF id \in rem THEN polls[id] + 1 ELSE polls[id]]
    /\ lateCalls' = IF expired THEN lateCalls + 1 ELSE lateCalls
    /\ pc' = "stream"
    /\ UNCHANGED <<clock, storeVars, config, limit0, seen, apartVars, events, limit, tickVars, rem,
                   retry, upd, nonErr, expired, last>>

\* app.rs:87  the loop condition fails: on to the report
EndFanout ==
    /\ pc = "while"
    /\ ~(0 < Cardinality(rem) /\ 0 < retry)
    /\ pc' = "report"
    /\ UNCHANGED <<clock, storeVars, config, limit0, seen, apartVars, events, limit, tickVars, rem,
                   retry, running, chan, histVars>>

\* a poll task finishes and sends its result into the channel of its
\* substream (http_poller.rs:37-38, webdriver_poller.rs:88-96)
PollComplete ==
    \E id \in running, result \in PollResults :
        LET m == configs[id].mode
        IN  /\ pc = "stream"
            /\ running' = running \ {id}
            /\ chan' = [chan EXCEPT ![m] = Append(@, [id |-> id, result |-> result])]
            /\ nonErr' = IF result.ok THEN nonErr \cup {id} ELSE nonErr
            /\ UNCHANGED <<clock, storeVars, config, limit0, seen, apartVars, events, pc, limit,
                           tickVars, rem, retry, polls, upd, expired,
                           lateCalls, last>>

\* a mutation of StreamNext that leaves a stored id in rem
StreamNextKeepsRem(m, o) ==
    /\ pc = "stream"
    /\ chan[m] # <<>>
    /\ LET id == Head(chan[m]).id
           result == Head(chan[m]).result
           content == Trim(result.val)
       IN  /\ chan' = [chan EXCEPT ![m] = Tail(@)]
           /\ IF ~result.ok
              THEN /\ o = "ok"
                   /\ last' = [kind |-> "poll_err", id |-> id]
                   /\ UNCHANGED <<storeVars, rem, upd, seen>>
              ELSE IF IsEmptyContent(content)
              THEN /\ o = "ok"
                   /\ last' = [kind |-> "empty", id |-> id]
                   /\ UNCHANGED <<storeVars, rem, upd, seen>>
              ELSE /\ update(id, Hash(content), o)
                   /\ rem' = rem
                   /\ upd' = [upd EXCEPT ![id] = @ + 1]
                   /\ last' = [kind |-> IF o = "ok" THEN "stored" ELSE "store_err",
                               id |-> id]
                   /\ seen' = IF o = "ok"
                              THEN [seen EXCEPT ![id] = Some(content)]
                              ELSE seen
    /\ UNCHANGED <<clock, config, limit0, apartVars, events, pc, limit, tickVars,
                   retry, running, polls, nonErr, expired, lateCalls>>

\* app.rs:91-118  the stream yields the next result of substream m
\* (selective_poller.rs:82-89) and the engine handles it
StreamNext(m, o) ==
    /\ pc = "stream"
    /\ chan[m] # <<>>
    /\ LET id == Head(chan[m]).id
           result == Head(chan[m]).result
           content == Trim(result.val)
       IN  /\ chan' = [chan EXCEPT ![m] = Tail(@)]
           /\ IF ~result.ok
              THEN /\ o = "ok"
                   /\ last' = [kind |-> "poll_err", id |-> id]
                   /\ UNCHANGED <<storeVars, rem, upd, seen>>
              ELSE IF IsEmptyContent(content)
              THEN /\ o = "ok"
                   /\ last' = [kind |-> "empty", id |-> id]
                   /\ UNCHANGED <<storeVars, rem, upd, seen>>
              ELSE /\ update(id, Hash(content), o)
                   /\ rem' = rem \ {id}
                   /\ upd' = [upd EXCEPT ![id] = @ + 1]
                   /\ last' = [kind |-> IF o = "ok" THEN "stored" ELSE "store_err",
                               id |-> id]
                   /\ seen' = IF o = "ok"
                              THEN [seen EXCEPT ![id] = Some(content)]
                              ELSE seen
    /\ UNCHANGED <<clock, config, limit0, apartVars, events, pc, limit, tickVars,
                   retry, running, polls, nonErr, expired, lateCalls>>

HandleResult == \E m \in Modes, o \in SaveOutcomes : StreamNext(m, o)

\* app.rs:91,120  the stream ends (both substreams have ended): retry -= 1
StreamEnd ==
    /\ pc = "stream"
    /\ running = {}
    /\ chan = NoChan
    /\ retry' = retry - 1
    /\ pc' = "while"
    /\ UNCHANGED <<clock, storeVars, config, limit0, seen, apartVars, events, limit, tickVars, rem,
                   running, chan, histVars>>

\* a mutation of Timeout that does not count the abandoned attempt
TimeoutKeepsRetry ==
    /\ pc = "stream"
    /\ clock >= deadline
    /\ running' = {}
    /\ chan' = NoChan
    /\ expired' = TRUE
    /\ pc' = "while"
    /\ UNCHANGED <<clock, storeVars, config, limit0, seen, apartVars, events, limit, tickVars, rem,
                   retry, polls, upd, nonErr, lateCalls, last>>

\* a mutation of Timeout: the deadline is looked at only once the stream
\* has nothing more to come
TimeoutAfterStream ==
    /\ pc = "stream"
    /\ clock >= deadline
    /\ running = {}
    /\ retry' = retry - 1
    /\ running' = {}
    /\ chan' = NoChan
    /\ expired' = TRUE
    /\ pc' = "while"
    /\ UNCHANGED <<clock, storeVars, config, limit0, seen, apartVars, events, limit, tickVars, rem,
                   polls, upd, nonErr, lateCalls, last>>

\* app.rs:91-92,120  timeout_at(deadline, ..) returns Err(Elapsed): the
\* stream is dropped with what it still holds; retry -= 1
Timeout ==
    /\ pc = "stream"
    /\ clock >= deadline
    /\ retry' = retry - 1
    /\ running' = {}
    /\ chan' = NoChan
    /\ expired' = TRUE
    /\ pc' = "while"
    /\ UNCHANGED <<clock, storeVars, config, limit0, seen, apartVars, events, limit, tickVars, rem,
                   polls, upd, nonErr, lateCalls, last>>

\* app.rs:138-141  the rows of the table: the ids whose record has a
\* last_updated
Listed(m) == {id \in DOMAIN m : m[id].last_updated # None}

\* app.rs:123-172  the report: get_all, the table; back to the loop head.
\* configs[&id] (app.rs:159) panics for a listed id the snapshot lacks.
Report ==
    /\ pc = "report"
    /\ pc' = IF Listed(map) \subseteq DOMAIN configs THEN "loop" ELSE "panicked"
    /\ UNCHANGED <<clock, storeVars, config, limit0, seen, apartVars, events, limit, tickVars, rem,
                   retry, running, chan, histVars>>

\* a mutation of ReportDataError: the error ends run, as `?` would
ReportDataErrorFails ==
    /\ pc = "report"
    /\ last' = DataReadErr
    /\ pc' = "failed"
    /\ UNCHANGED <<clock, storeVars, config, limit0, seen, apartVars, events, limit, tickVars, rem,
                   retry, running, chan, polls, upd, nonErr, expired, lateCalls>>

\* app.rs:123-129  data_repo.get_all() returns Err (the trait lets it):
\* warn!, continue; no table is built, the loop goes to its head
ReportDataError ==
    /\ pc = "report"
    /\ last' = DataReadErr
    /\ pc' = "loop"
    /\ UNCHANGED <<clock, storeVars, config, limit0, seen, apartVars, events, limit, tickVars, rem,
                   retry, running, chan, polls, upd, nonErr, expired, lateCalls>>

(***************************************************************************)
(* The WebDriver client pool (ClientPool, PoolItem)                        *)
(***************************************************************************)
\* the tasks that use the pool
Tasks == {"t1", "t2", "t3"}

NoLease == [t \in Tasks |-> None]

\* the ways the task that holds a PoolItem can end
ExitPaths == {"return", "error", "panic", "cancel"}

\* ClientPool::new: one client per port, sent into the channel in port order
PoolNew ==
    /\ ports \in 0..MaxPorts
    /\ idle = [i \in 1..ports |-> i]
    /\ holder = None
    /\ waiters = <<>>
    /\ lease = NoLease
    /\ arrival = <<>>
    /\ lastGet = None
    /\ lastExit = "none"

\* no pool is in use
PoolIdle ==
    /\ ports = 0
    /\ idle = <<>>
    /\ holder = None
    /\ waiters = <<>>
    /\ lease = NoLease
    /\ arrival = <<>>
    /\ lastGet = None
    /\ lastExit = "none"

\* s without its i-th element
RemoveAt(s, i) == SubSeq(s, 1, i - 1) \o SubSeq(s, i + 1, Len(s))

\* s without the element x
Without(s, x) == SelectSeq(s, LAMBDA y : y # x)

\* a mutation of Granted: the lock goes to the task that came last
GrantedLast(ws) == Len(ws)

\* tokio::sync::Mutex is fair: the lock goes to the task that has waited
\* longest, the first of the queue
Granted(ws) == 1

\* the MutexGuard is dropped: the lock passes to a queued task, if any
Unlock(ws) ==
    IF ws = <<>>
    THEN [holder |-> None, waiters |-> <<>>]
    ELSE [holder |-> Some(ws[Granted(ws)]), waiters |-> RemoveAt(ws, Granted(ws))]

\* a mutation of Return: the client is not sent back
ReturnLost(ch, client) == ch

\* returning_port.send(client)
Return(ch, client) == Append(ch, client)

\* ClientPool::get up to lending_port.lock().await: the task takes the free
\* lock or queues for it
PoolGet(t) ==
    /\ lease[t] = None
    /\ holder # Some(t)
    /\ \A i \in DOMAIN waiters : waiters[i] # t
    /\ IF holder = None
       THEN holder' = Some(t) /\ waiters' = waiters
       ELSE holder' = holder /\ waiters' = Append(waiters, t)
    /\ arrival' = Append(arrival, t)
    /\ UNCHANGED <<ports, idle, lease, lastGet, lastExit>>

\* ClientPool::get from recv().await on: the holder of the lock receives the
\* oldest client of the channel, the guard is dropped, the PoolItem returned
PoolRecv(t) ==
    /\ holder = Some(t)
    /\ idle # <<>>
    /\ lease' = [lease EXCEPT ![t] = Some(Head(idle))]
    /\ idle' = Tail(idle)
    /\ holder' = Unlock(waiters).holder
    /\ waiters' = Unlock(waiters).waiters
    /\ arrival' = Without(arrival, t)
    /\ lastGet' = Some([task |-> t, ahead |-> Len(arrival) - Len(waiters) - 1,
                        behind |-> Len(waiters)])
    /\ UNCHANGED <<ports, lastExit>>

\* the future of get() is dropped while the task queues for the lock or
\* waits in recv(): it leaves the queue, or the guard is dropped
PoolGetCancelled(t) ==
    /\ \/ holder = Some(t)
       \/ \E i \in DOMAIN waiters : waiters[i] = t
    /\ IF holder = Some(t)
       THEN /\ holder' = Unlock(waiters).holder
            /\ waiters' = Unlock(waiters).waiters
       ELSE /\ holder' = holder
            /\ waiters' = Without(waiters, t)
    /\ arrival' = Without(arrival, t)
    /\ UNCHANGED <<ports, idle, lease, lastGet, lastExit>>

\* a mutation of PoolItemDrop: the item has no Drop, the client ends with it
PoolItemForgotten(t, path) ==
    /\ lease[t] # None
    /\ lastExit' = path
    /\ UNCHANGED <<ports, idle, lease, holder, waiters, arrival, lastGet>>

\* Drop for PoolItem: whichever way the task ends, the client is taken out
\* of the item and sent back
PoolItemDrop(t, path) ==
    /\ lease[t] # None
    /\ idle' = Return(idle, lease[t][1])
    /\ lease' = [lease EXCEPT ![t] = None]
    /\ lastExit' = path
    /\ UNCHANGED <<ports, holder, waiters, arrival, lastGet>>

(***************************************************************************)
(* The data-store actor and its client handles (data_repository_actor.rs)  *)
(***************************************************************************)
\* the client handles (DataRepositoryActorClient and its clones)
Clients == {"c1", "c2"}

\* a request: the n-th call made through the handle c
Reqs == Clients \X (1..MaxCalls)

\* what the handles pass to update
ActorContents == { <<"a">> }

\* the calls made through all the handles
RECURSIVE CallsMade(_, _)
CallsMade(f, S) ==
    IF S = {} THEN 0
    ELSE LET c == CHOOSE x \in S : TRUE
         IN  f[c] + CallsMade(f, S \ {c})

\* ActorMessageError::SendError inside Error::ActorMessageError
SendError == <<"ActorMessageError", "SendError">>

\* ActorMessageError::RecvError inside Error::ActorMessageError
RecvError == <<"ActorMessageError", "RecvError">>

\* Error::DataRepositoryError(e)
DataRepositoryError(e) == <<"DataRepositoryError", e>>

\* the states of a oneshot channel: not created, open, the result sent, the
\* sender dropped without a send, the receiver dropped
Unused == [st |-> "unused", val |-> None]

Open == [st |-> "open", val |-> None]

Sent(result) == [st |-> "sent", val |-> Some(result)]

Dropped == [st |-> "dropped", val |-> None]

RxGone == [st |-> "rx_gone", val |-> None]

\* tx.send(result): it fails, and is ignored, when the receiver is gone
OneshotSend(ch, result) == IF ch.st = "open" THEN Sent(result) ELSE ch

\* the oneshot sender is dropped
OneshotDrop(ch) == IF ch.st = "open" THEN Dropped ELSE ch

\* DataRepositoryActor::start, the task spawned and the first handle returned
ActorNew ==
    /\ alive = TRUE
    /\ mbox = <<>>
    /\ cur = None
    /\ reply = [r \in Reqs |-> Unused]
    /\ call = [c \in Clients |-> None]
    /\ made = [c \in Clients |-> 0]
    /\ out = [c \in Clients |-> None]
    /\ arrived = <<>>
    /\ applied = <<>>
    /\ inner = [r \in Reqs |-> None]

\* no actor is in use
ActorIdle ==
    /\ alive = FALSE
    /\ mbox = <<>>
    /\ cur = None
    /\ reply = [r \in Reqs |-> Unused]
    /\ call = [c \in Clients |-> None]
    /\ made = [c \in Clients |-> 0]
    /\ out = [c \in Clients |-> None]
    /\ arrived = <<>>
    /\ applied = <<>>
    /\ inner = [r \in Reqs |-> None]

\* a mutation of Received that reports a store error as a lost reply
ReceivedHidesStoreError(ch) ==
    IF ch.st = "sent" /\ ch.val[1].ok THEN ch.val[1] ELSE Err(RecvError)

\* data_repository_actor.rs:144-147  match rx.await
Received(ch) ==
    IF ch.st = "sent"
    THEN IF ch.val[1].ok THEN ch.val[1] ELSE Err(DataRepositoryError(ch.val[1].val))
    ELSE Err(RecvError)

\* data_repository_actor.rs:138-143  update through the handle c: the oneshot
\* channel, then tx_message.send; Err(SendError) at once when it fails
ClientUpdate(c, key, content) ==
    LET r == <<c, made[c] + 1>>
    IN  /\ call[c] = None
        /\ CallsMade(made, Clients) < MaxCalls
        /\ made' = [made EXCEPT ![c] = @ + 1]
        /\ IF alive
           THEN /\ mbox' = Append(mbox, [req |-> r, key |-> key, content |-> content])
                /\ reply' = [reply EXCEPT ![r] = Open]
                /\ call' = [call EXCEPT ![c] = Some(r[2])]
                /\ arrived' = Append(arrived, r)
                /\ out' = out
           ELSE /\ out' = [out EXCEPT ![c] =
                              Some([n |-> r[2], res |-> Err(SendError)])]
                /\ UNCHANGED <<mbox, reply, call, arrived>>
        /\ UNCHANGED <<alive, cur, applied, inner>>

\* data_repository_actor.rs:144-147  rx.await completes and update returns
ClientReturn(c) ==
    /\ call[c] # None
    /\ LET r == <<c, call[c][1]>>
       IN  /\ reply[r].st \in {"sent", "dropped"}
           /\ out' = [out EXCEPT ![c] = Some([n |-> r[2], res |-> Received(reply[r])])]
    /\ call' = [call EXCEPT ![c] = None]
    /\ UNCHANGED <<alive, mbox, cur, reply, made, arrived, applied, inner>>

\* the future of update is dropped while it awaits the reply: the oneshot
\* receiver goes with it
ClientCancelled(c) ==
    /\ call[c] # None
    /\ LET r == <<c, call[c][1]>>
       IN  reply' = [reply EXCEPT ![r] = IF @.st = "open" THEN RxGone ELSE @]
    /\ call' = [call EXCEPT ![c] = None]
    /\ UNCHANGED <<alive, mbox, cur, made, out, arrived, applied, inner>>

\* a mutation of Oldest: the newest message is received first
Newest(q) == Len(q)

\* mpsc channels are queues: recv yields the oldest message
Oldest(q) == 1

\* a mutation of ActorRecv: a message whose caller is gone is thrown away
ActorRecvSkipsGone ==
    /\ alive
    /\ cur = None
    /\ mbox # <<>>
    /\ cur' = IF reply[mbox[Oldest(mbox)].req].st = "rx_gone"
              THEN None
              ELSE Some([msg |-> mbox[Oldest(mbox)], result |-> None])
    /\ mbox' = RemoveAt(mbox, Oldest(mbox))
    /\ UNCHANGED <<alive, reply, call, made, out, arrived, applied, inner>>

\* data_repository_actor.rs:22  rx_message.recv().await yields a message
ActorRecv ==
    /\ alive
    /\ cur = None
    /\ mbox # <<>>
    /\ cur' = Some([msg |-> mbox[Oldest(mbox)], result |-> None])
    /\ mbox' = RemoveAt(mbox, Oldest(mbox))
    /\ UNCHANGED <<alive, reply, call, made, out, arrived, applied, inner>>

\* data_repository_actor.rs:36-37  self.inner.update(id, hash).await
ActorUpdate(o) ==
    /\ alive
    /\ cur # None
    /\ cur[1].result = None
    /\ update(cur[1].msg.key, cur[1].msg.content, o)
    /\ cur' = Some([cur[1] EXCEPT !.result = Some(ret'.res)])
    /\ applied' = Append(applied, cur[1].msg.req)
    /\ inner' = [inner EXCEPT ![cur[1].msg.req] = Some(ret'.res)]
    /\ UNCHANGED <<alive, mbox, reply, call, made, out, arrived>>

\* data_repository_actor.rs:38  let _ = tx.send(result); back to recv
ActorReply ==
    /\ alive
    /\ cur # None
    /\ cur[1].result # None
    /\ reply' = [reply EXCEPT ![cur[1].msg.req] = OneshotSend(@, cur[1].result[1])]
    /\ cur' = None
    /\ UNCHANGED <<alive, mbox, call, made, out, arrived, applied, inner>>

\* the requests whose oneshot sender the actor's task holds
Held == {mbox[i].req : i \in DOMAIN mbox}
            \cup (IF cur = None THEN {} ELSE {cur[1].msg.req})

\* the actor's task ends (a panic of the store, the runtime shut down):
\* rx_message and every message it holds are dropped, their senders too
ActorGone ==
    /\ alive
    /\ alive' = FALSE
    /\ reply' = [r \in Reqs |-> IF r \in Held THEN OneshotDrop(reply[r]) ELSE reply[r]]
    /\ mbox' = <<>>
    /\ cur' = None
    /\ UNCHANGED <<call, made, out, arrived, applied, inner>>

(***************************************************************************)
(* SelectivePoller::poll_multiple and the stream it returns                *)
(***************************************************************************)
\* main.rs:74-77  full_mode_poller is the WebDriverPoller, simple_mode_poller
\* the HttpPoller
Subpoller(m) == IF m = "full" THEN "WebDriverPoller" ELSE "HttpPoller"

\* selective_poller.rs:83-84  x.map_err(Error::FullModePollerError) and
\* x.map_err(Error::SimpleModePollerError)
Tagged(m, result) ==
    IF result.ok THEN result
    ELSE IF m = "full" THEN Err(<<"FullModePollerError", result.val>>)
    ELSE Err(<<"SimpleModePollerError", result.val>>)

\* a mutation of Partition that hands every target to the full-mode poller
PartitionAllFull(g, m) == IF m = "full" THEN DOMAIN g ELSE {}

\* selective_poller.rs:57-69  the keys of full_mode_configs (m = "full") and
\* of simple_mode_configs (m = "simple")
Partition(g, m) == {id \in DOMAIN g : g[id] = m}

NoSub == [m \in Modes |-> {}]

\* no call of poll_multiple is under way
SelIdle ==
    /\ given = [id \in {} |-> "full"]
    /\ handed = NoSub
    /\ subrun = NoSub
    /\ subchan = NoChan
    /\ merged = <<>>
    /\ spc = "ended"

\* a caller is about to pass a map of targets to poll_multiple
SelNew ==
    /\ given \in UNION {[S -> Modes] : S \in SUBSET Ids}
    /\ handed = NoSub
    /\ subrun = NoSub
    /\ subchan = NoChan
    /\ merged = <<>>
    /\ spc = "call"

\* selective_poller.rs:56-75  the partition and the two poll_multiple calls,
\* each of which spawns one task per id of its map
SelPollMultiple ==
    /\ spc = "call"
    /\ handed' = [m \in Modes |-> Partition(given, m)]
    /\ subrun' = handed'
    /\ spc' = "merging"
    /\ UNCHANGED <<given, subchan, merged>>

\* a poll task of the subpoller m finishes and sends its result
\* (http_poller.rs:36-39, webdriver_poller.rs:78-97)
SubComplete(m, id, result) ==
    /\ id \in subrun[m]
    /\ subrun' = [subrun EXCEPT ![m] = @ \ {id}]
    /\ subchan' = [subchan EXCEPT ![m] = Append(@, [id |-> id, result |-> result])]
    /\ UNCHANGED <<given, handed, merged, spc>>

\* selective_poller.rs:82-88  select! takes the next item of the substream m,
\* maps its error and yields it
SelYield(m) ==
    /\ spc = "merging"
    /\ subchan[m] # <<>>
    /\ merged' = Append(merged, [id |-> Head(subchan[m]).id,
                                 result |-> Tagged(m, Head(subchan[m]).result)])
    /\ subchan' = [subchan EXCEPT ![m] = Tail(@)]
    /\ UNCHANGED <<given, handed, subrun, spc>>

\* a mutation of SelEnd: the loop breaks as soon as one substream has ended
SelEndsWithEither ==
    /\ spc = "merging"
    /\ \E m \in Modes : subrun[m] = {} /\ subchan[m] = <<>>
    /\ spc' = "ended"
    /\ UNCHANGED <<given, handed, subrun, subchan, merged>>

\* selective_poller.rs:85  else => break: both substreams have ended (every
\* sender of their channels is gone and nothing is left in them)
SelEnd ==
    /\ spc = "merging"
    /\ \A m \in Modes : subrun[m] = {} /\ subchan[m] = <<>>
    /\ spc' = "ended"
    /\ UNCHANGED <<given, handed, subrun, subchan, merged>>

\* time passes while the engine runs
EngineAdvance ==
    /\ Advance
    /\ UNCHANGED <<storeVars, engineVars, apartVars>>

(***************************************************************************)
(* The config store (TomlConfigRepository over TomlFileProxy)              *)
(***************************************************************************)
\* Config (domain/models/mod.rs:17-23).  selector and wait_seconds pass
\* through every conversion unchanged and are left out.
Configs == {[url |-> <<"u">>, mode |-> m] : m \in Modes}

ConfigMaps == UNION {[S -> Configs] : S \in SUBSET Ids}

\* impl Default for Mode
DefaultMode == "full"

\* impl From<Config> for TomlConfig
TomlConfigFrom(c) == [url |-> c.url, mode |-> Some(c.mode)]

\* impl Into<Config> for TomlConfig
IntoConfig(t) ==
    [url |-> t.url, mode |-> IF t.mode = None THEN DefaultMode ELSE t.mode[1]]

\* the tables a config file can hold for an id: written from a Config, or
\* written by hand without a mode
TomlConfigs ==
    {TomlConfigFrom(c) : c \in Configs} \cup {[url |-> <<"u">>, mode |-> None]}

\* the text of a config file that holds the map x
Saved(x) == ToToml([id \in DOMAIN x |-> TomlConfigFrom(x[id])])

\* AsyncReadExt::read_to_string on a file handle at position pos: the text
\* from pos to the end; the handle is left at the end
read_to_string(f, pos) == SubSeq(f, pos + 1, Len(f))

\* toml_config_repository.rs:139-141 aside, the error of the config store
TomlProxyError == <<"TomlProxyError", "IoError">>

CfgCall(op, key, res) == [op |-> op, key |-> key, res |-> res]

NoCfgCall == CfgCall("none", "", Ok(Unit))

\* no config store is in use
CfgIdle ==
    /\ cfile = <<>>
    /\ cpos = 0
    /\ cache = None
    /\ cret = NoCfgCall

\* the process is about to open a config file that was written by hand or
\* by an earlier save
CfgStart ==
    /\ cfile \in {ToToml(m) : m \in UNION {[S -> TomlConfigs] : S \in SUBSET Ids}}
    /\ cpos = 0
    /\ cache = None
    /\ cret = NoCfgCall

\* TomlConfigRepository::new: TomlFileProxy::new opens the file and reads it
\* to its end to validate it, then load() reads on with the same handle
CfgNew(o) ==
    /\ cache = None
    /\ IF o # "ok"
       THEN /\ cret' = CfgCall("new", "", Err(TomlProxyError))
            /\ UNCHANGED <<cfile, cpos, cache>>
       ELSE LET validated == read_to_string(cfile, 0)
                pos1 == Len(cfile)
                toml == read_to_string(cfile, pos1)
            IN  /\ cache' = Some(FromToml(toml))
                /\ cpos' = Len(cfile)
                /\ cret' = CfgCall("new", "", Ok(Unit))
                /\ UNCHANGED cfile

\* the process ends; the store and its file handle are dropped
CfgDrop ==
    /\ cache # None
    /\ cache' = None
    /\ cpos' = 0
    /\ cret' = NoCfgCall
    /\ UNCHANGED cfile

\* TomlConfigRepository::get_all
cfg_get_all(c) == [id \in DOMAIN c[1] |-> IntoConfig(c[1][id])]

CfgGetAll ==
    /\ cache # None
    /\ cret' = CfgCall("get_all", "", Ok(cfg_get_all(cache)))
    /\ UNCHANGED <<cfile, cpos, cache>>

\* TomlConfigRepository::update_map
cfg_update_map(m, id, cfg) ==
    [map |-> Insert(m, id, TomlConfigFrom(cfg)), info |-> [id |-> id, data |-> Get(m, id)]]

\* TomlConfigRepository::delete_map
cfg_delete_map(m, id) ==
    [map |-> Remove(m, id), info |-> [id |-> id, data |-> Get(m, id)]]

\* a mutation of restore that never puts the old table back
cfg_restore_removes(m, info) == Remove(m, info.id)

\* TomlConfigRepository::restore
cfg_restore(m, info) ==
    IF info.data # None THEN Insert(m, info.id, info.data[1])
    ELSE Remove(m, info.id)

\* TomlFileProxy::save of the cache m, ending in outcome o: the file and the
\* position of the handle afterwards
proxy_save(m, o) ==
    /\ cfile' \in save(m, cfile, o)
    /\ cpos' = IF o = "seek" THEN cpos ELSE IF o = "set_len" THEN 0 ELSE Len(cfile')

\* ConfigRepository::update for TomlConfigRepository
cfg_update(id, cfg, o) ==
    LET r == cfg_update_map(cache[1], id, cfg)
    IN  /\ cache # None
        /\ proxy_save(r.map, o)
        /\ IF o # "ok"
           THEN /\ cache' = Some(cfg_restore(r.map, r.info))
                /\ cret' = CfgCall("update", id, Err(TomlProxyError))
           ELSE /\ cache' = Some(r.map)
                /\ cret' = CfgCall("update", id, Ok(Unit))

\* ConfigRepository::delete for TomlConfigRepository
cfg_delete(id, o) ==
    LET r == cfg_delete_map(cache[1], id)
    IN  /\ cache # None
        /\ proxy_save(r.map, o)
        /\ IF o # "ok"
           THEN /\ cache' = Some(cfg_restore(r.map, r.info))
                /\ cret' = CfgCall("delete", id, Err(TomlProxyError))
           ELSE /\ cache' = Some(r.map)
                /\ cret' = CfgCall("delete", id,
                                   Ok(IF r.info.data = None THEN None
                                      ELSE Some(IntoConfig(r.info.data[1]))))

(***************************************************************************)
(* The update broadcaster (main.rs: source channel, message_dealer,        *)
(* broadcast channel, websocket handlers)                                  *)
(***************************************************************************)
Sockets == {"w1", "w2"}

\* the k-th DocUpdateInfo the engine's side sends (main.rs:91-92)
DocUpdate(k) == [id |-> "a", url |-> <<"u", "a">>, timestamp |-> k]

\* main.rs:103-108  Message of the event, serde_json::to_string
Json(x) == <<"{", x.id, x.url, x.timestamp, "}">>

\* the position of the oldest message the broadcast channel still holds: a
\* send into a full channel releases the oldest one
OldestHeld(log) == IF Len(log) > Capacity THEN Len(log) - Capacity + 1 ELSE 1

\* a mutation of Resubscribe: the new receiver starts one message late
ResubscribeLate(log) == Len(log) + 2

\* main.rs:169  state.rx.resubscribe(): the new receiver sees the messages
\* sent after this call
Resubscribe(log) == Len(log) + 1

\* no client has connected and nothing was published
BusNew ==
    /\ srcq = <<>>
    /\ published = 0
    /\ bsent = <<>>
    /\ wsub = [w \in Sockets |-> "none"]
    /\ cursor = [w \in Sockets |-> 0]
    /\ since = [w \in Sockets |-> 0]
    /\ got = [w \in Sockets |-> <<>>]

BusIdle == BusNew

\* the sender of the source channel sends one more event
BusPublish ==
    /\ published < MaxEvents
    /\ published' = published + 1
    /\ srcq' = Append(srcq, DocUpdate(published + 1))
    /\ UNCHANGED <<bsent, wsub, cursor, since, got>>

\* a mutation of BusDeal: the dealer takes the newest event of the source
\* channel
BusDealNewest ==
    /\ srcq # <<>>
    /\ bsent' = Append(bsent, Json(srcq[Len(srcq)]))
    /\ srcq' = SubSeq(srcq, 1, Len(srcq) - 1)
    /\ UNCHANGED <<published, wsub, cursor, since, got>>

\* main.rs:102-115  message_dealer: one turn of its loop.  tx.send fails only
\* without receivers, and AppState keeps one for good (main.rs:94).
BusDeal ==
    /\ srcq # <<>>
    /\ bsent' = Append(bsent, Json(Head(srcq)))
    /\ srcq' = Tail(srcq)
    /\ UNCHANGED <<published, wsub, cursor, since, got>>

\* main.rs:166-169  a client connects and its handler subscribes
WsConnect(w) ==
    /\ wsub[w] = "none"
    /\ wsub' = [wsub EXCEPT ![w] = "open"]
    /\ cursor' = [cursor EXCEPT ![w] = Resubscribe(bsent)]
    /\ since' = [since EXCEPT ![w] = published]
    /\ UNCHANGED <<srcq, published, bsent, got>>

\* main.rs:171-175  one turn of the handler's loop: rx.recv() gives the next
\* message, which is sent to the socket, or Err(Lagged) when that message
\* was released already, which ends the while-let loop and the handler
WsRecv(w) ==
    /\ wsub[w] = "open"
    /\ IF cursor[w] < OldestHeld(bsent)
       THEN /\ wsub' = [wsub EXCEPT ![w] = "lagged"]
            /\ cursor' = [cursor EXCEPT ![w] = OldestHeld(bsent)]
            /\ UNCHANGED got
       ELSE /\ cursor[w] <= Len(bsent)
            /\ got' = [got EXCEPT ![w] = Append(@, bsent[cursor[w]])]
            /\ cursor' = [cursor EXCEPT ![w] = @ + 1]
            /\ UNCHANGED wsub
    /\ UNCHANGED <<srcq, published, bsent, since>>

(***************************************************************************)
(* Hash and its text (domain/models/hash.rs)                               *)
(***************************************************************************)
\* u8::is_ascii_digit
is_ascii_digit(b) == b \in 48..57

\* u8::is_ascii_hexdigit
is_ascii_hexdigit(b) == b \in (48..57) \cup (65..70) \cup (97..102)

\* a mutation of f: the letters are valued one too high
from_hash_str_f_off(b) ==
    IF is_ascii_digit(b) THEN Some((b - 48) % 256)
    ELSE IF is_ascii_hexdigit(b) THEN Some(((b % 16) + 10) % 256)
    ELSE None

\* hash.rs:19-27  fn f inside from_hash_str, in u8 arithmetic
from_hash_str_f(b) ==
    IF is_ascii_digit(b) THEN Some((b - 48) % 256)
    ELSE IF is_ascii_hexdigit(b) THEN Some(((b % 16) + 9) % 256)
    ELSE None

FromHashStrError == <<"FromHashStrError">>

\* Hash::from_hash_str; s is the text as bytes, two of them per byte of the
\* hash
from_hash_str(s) ==
    IF Len(s) # 2 * HashLen THEN Err(FromHashStrError)
    ELSE IF \E j \in 1..Len(s) : from_hash_str_f(s[j]) = None
         THEN Err(FromHashStrError)
         ELSE Ok([i \in 1..HashLen |->
                    (from_hash_str_f(s[2 * i - 1])[1] * 16
                        + from_hash_str_f(s[2 * i])[1]) % 256])

\* the digit {:x} writes for a value below 16
LowerHexDigit(n) == IF n < 10 THEN 48 + n ELSE 97 + (n - 10)

\* impl Display for Hash: {x:02x} of every byte
Display(h) ==
    [j \in 1..(2 * Len(h)) |->
        LET x == h[(j + 1) \div 2]
        IN  IF j % 2 = 1 THEN LowerHexDigit(x \div 16) ELSE LowerHexDigit(x % 16)]

\* u8::to_ascii_uppercase
to_ascii_uppercase(b) == IF b \in 97..122 THEN b - 32 ELSE b

HashIdle ==
    /\ hin = <<>>
    /\ htext = <<>>
    /\ hres = None

\* some Hash, nothing written or parsed yet
HashNew ==
    /\ hin \in [1..HashLen -> 0..255]
    /\ htext = <<>>
    /\ hres = None

\* to_string() of the hash
HashToString ==
    /\ htext = <<>>
    /\ htext' = Display(hin)
    /\ hres' = None
    /\ UNCHANGED hin

\* a letter of the text is put in upper case
HashRecase(j) ==
    /\ j \in DOMAIN htext
    /\ to_ascii_uppercase(htext[j]) # htext[j]
    /\ htext' = [htext EXCEPT ![j] = to_ascii_uppercase(@)]
    /\ hres' = None
    /\ UNCHANGED hin

\* the text as written is cut short by a byte or its first byte is
\* overwritten with "g"
HashDamage ==
    /\ htext # <<>>
    /\ htext = Display(hin)
    /\ htext' \in {SubSeq(htext, 1, Len(htext) - 1), [htext EXCEPT ![1] = 103]}
    /\ hres' = None
    /\ UNCHANGED hin

\* from_hash_str of the text
HashParse ==
    /\ htext # <<>>
    /\ hres = None
    /\ hres' = Some(from_hash_str(htext))
    /\ UNCHANGED <<hin, htext>>

(***************************************************************************)
(* WebDriverPoller::poll_multiple and the tasks it spawns, called as       *)
(* App::run calls it                                                       *)
(***************************************************************************)
NoJob == [t \in Tasks |-> None]

\* the results a poll through a browser session can give
WdResults == {Ok(<<"b">>), Err("webdriver")}

WdIdle ==
    /\ wjob = NoJob
    /\ wstage = [t \in Tasks |-> "none"]
    /\ wcall = 0
    /\ wlive = FALSE
    /\ wchan = <<>>
    /\ wrem = {}
    /\ wdropped = {}

\* app.rs:84-85  a tick has its snapshot, all of it full-mode ids
WdNew ==
    /\ wjob = NoJob
    /\ wstage = [t \in Tasks |-> "none"]
    /\ wcall = 0
    /\ wlive = FALSE
    /\ wchan = <<>>
    /\ wrem \in SUBSET Ids
    /\ wdropped = {}

\* the task slots without a task
FreeTasks == {t \in Tasks : wjob[t] = None}

\* the tasks of the call c that have not finished
TasksOf(c) == {t \in Tasks : wjob[t] # None /\ wjob[t][1].call = c}

\* app.rs:87-88, webdriver_poller.rs:72-99  the while condition holds and
\* poll_multiple(rem.clone()) spawns one task per id; slots gives each id
\* its task
WdPollMultiple(slots) ==
    /\ ~wlive
    /\ 0 < Cardinality(wrem) /\ wcall < RetryInit
    /\ DOMAIN slots = wrem
    /\ \A id \in wrem : slots[id] \in FreeTasks
    /\ \A i, j \in wrem : i # j => slots[i] # slots[j]
    /\ wcall' = wcall + 1
    /\ wlive' = TRUE
    /\ wchan' = <<>>
    /\ wjob' = [t \in Tasks |->
                  IF \E id \in wrem : slots[id] = t
                  THEN Some([id |-> CHOOSE id \in wrem : slots[id] = t,
                             call |-> wcall + 1])
                  ELSE wjob[t]]
    /\ wstage' = [t \in Tasks |->
                    IF \E id \in wrem : slots[id] = t THEN "spawned" ELSE wstage[t]]
    /\ UNCHANGED <<wrem, wdropped, poolVars>>

\* webdriver_poller.rs:85  the task enters client_pool.get()
WdTaskGet(t) ==
    /\ wstage[t] = "spawned"
    /\ PoolGet(t)
    /\ wstage' = [wstage EXCEPT ![t] = "get"]
    /\ UNCHANGED <<wjob, wcall, wlive, wchan, wrem, wdropped>>

\* webdriver_poller.rs:85-87  get() returns the PoolItem; polling starts
WdTaskRecv(t) ==
    /\ wstage[t] = "get"
    /\ PoolRecv(t)
    /\ wstage' = [wstage EXCEPT ![t] = "polling"]
    /\ UNCHANGED <<wjob, wcall, wlive, wchan, wrem, wdropped>>

\* webdriver_poller.rs:88-93  poll(..) has its result; goto("about:blank")
WdTaskPolled(t, result) ==
    /\ wstage[t] = "polling"
    /\ wstage' = [wstage EXCEPT ![t] = "blank"]
    /\ wjob' = [wjob EXCEPT ![t] = Some([id |-> @[1].id, call |-> @[1].call,
                                         result |-> result])]
    /\ UNCHANGED <<wcall, wlive, wchan, wrem, wdropped, poolVars>>

\* a mutation of WdTaskEnd: a poll that failed ends the task at once
WdTaskEndOnError(t) ==
    /\ wstage[t] \in {"polling", "blank"}
    /\ LET result == IF wstage[t] = "polling" THEN Err("webdriver") ELSE wjob[t][1].result
       IN  wchan' = IF wlive /\ wjob[t][1].call = wcall
                    THEN Append(wchan, [id |-> wjob[t][1].id, result |-> result])
                    ELSE wchan
    /\ PoolItemDrop(t, "return")
    /\ wjob' = [wjob EXCEPT ![t] = None]
    /\ wstage' = [wstage EXCEPT ![t] = "none"]
    /\ UNCHANGED <<wcall, wlive, wrem, wdropped>>

\* webdriver_poller.rs:93-97  about:blank is loaded, the result is sent (to
\* no effect when the receiver is gone) and the task ends, which drops its
\* PoolItem
WdTaskEnd(t) ==
    /\ wstage[t] = "blank"
    /\ wchan' = IF wlive /\ wjob[t][1].call = wcall
                THEN Append(wchan, [id |-> wjob[t][1].id, result |-> wjob[t][1].result])
                ELSE wchan
    /\ PoolItemDrop(t, "return")
    /\ wjob' = [wjob EXCEPT ![t] = None]
    /\ wstage' = [wstage EXCEPT ![t] = "none"]
    /\ UNCHANGED <<wcall, wlive, wrem, wdropped>>

\* app.rs:91-117  the stream yields a result; a content is stored and its
\* id leaves rem
WdTake ==
    /\ wlive
    /\ wchan # <<>>
    /\ wchan' = Tail(wchan)
    /\ wrem' = IF Head(wchan).result.ok THEN wrem \ {Head(wchan).id} ELSE wrem
    /\ UNCHANGED <<wjob, wstage, wcall, wlive, wdropped, poolVars>>

\* app.rs:91,120  the stream ends: every task of the call has ended and the
\* channel is empty
WdStreamEnd ==
    /\ wlive
    /\ wchan = <<>>
    /\ TasksOf(wcall) = {}
    /\ wlive' = FALSE
    /\ UNCHANGED <<wjob, wstage, wcall, wchan, wrem, wdropped, poolVars>>

\* app.rs:91-92,120  timeout_at gives Err(Elapsed): the stream is dropped,
\* and with it the receiver of the channel.  The tasks were started with
\* tokio::spawn and their JoinHandles dropped (webdriver_poller.rs:78), so
\* they run on.
WdTimeout ==
    /\ wlive
    /\ wlive' = FALSE
    /\ wchan' = <<>>
    /\ wdropped' = wdropped \cup {wcall}
    /\ UNCHANGED <<wjob, wstage, wcall, wrem, poolVars>>

(***************************************************************************)
(* Timestamp and unix times (domain/models/timestamp.rs)                   *)
(***************************************************************************)
\* the units of time, scaled down: Kilo stands for the factor 1_000
Mega == Kilo * Kilo

Giga == Kilo * Kilo * Kilo

\* the modulus of the cast `as u32`; 2^32 is a little over 4 * 10^9
TwoTo32 == 4 * Giga

\* the largest count of seconds handed in
MaxSecs == 5 * Giga

\* a panic of the thread in place of a value
Panic == [panic |-> "unwrap on None"]

\* NaiveDateTime::from_timestamp_opt(secs, nsecs) for secs in the range of
\* dates: nsecs below a second is taken; nsecs of a second or more stands for
\* a leap second, which every release refuses from two seconds on and which
\* releases differ on below that (leap tells whether this one takes it)
from_timestamp_opt(secs, nsecs, leap) ==
    IF nsecs < Giga THEN Some([secs |-> secs, nsecs |-> nsecs])
    ELSE IF nsecs < 2 * Giga /\ leap THEN Some([secs |-> secs, nsecs |-> nsecs])
    ELSE None

\* Option::unwrap
unwrap(o) == IF o = None THEN Panic ELSE o[1]

\* Timestamp::from_unix_nanos
from_unix_nanos(nanos, leap) ==
    LET secs == nanos \div Giga
        subsec_nanos == (nanos \div Giga) % TwoTo32
    IN  unwrap(from_timestamp_opt(secs, subsec_nanos, leap))

\* Timestamp::from_unix_millis
from_unix_millis(millis, leap) == from_unix_nanos(millis * Mega, leap)

\* Timestamp::from_unix_secs
from_unix_secs(secs, leap) == from_unix_nanos(secs * Giga, leap)

\* Timestamp::unix_secs (NaiveDateTime::timestamp)
unix_secs(t) == t.secs

\* Timestamp::unix_millis (NaiveDateTime::timestamp_millis)
unix_millis(t) == t.secs * Kilo + t.nsecs \div Mega

\* Timestamp::unix_nanos; timestamp_nanos_opt is Some for the times of the
\* model, which are far from the ends of i64
unix_nanos(t) == t.secs * Giga + t.nsecs

TsKinds == {"secs", "millis", "nanos"}

\* the unix times of a unit up to MaxSecs seconds
TsInputs(k) ==
    CASE k = "secs" -> 0..MaxSecs
      [] k = "millis" -> 0..(MaxSecs * Kilo)
      [] k = "nanos" -> 0..(MaxSecs * Giga)

TsIdle ==
    /\ tkind = "none"
    /\ tin = 0
    /\ tval = None
    /\ tout = None

\* some unix time, nothing made of it yet
TsNew ==
    /\ tkind \in TsKinds
    /\ tin \in TsInputs(tkind)
    /\ tval = None
    /\ tout = None

\* Timestamp::from_unix_secs / from_unix_millis / from_unix_nanos of the input
TsFrom(leap) ==
    /\ tkind \in TsKinds
    /\ tval = None
    /\ tval' = Some(CASE tkind = "secs" -> from_unix_secs(tin, leap)
                      [] tkind = "millis" -> from_unix_millis(tin, leap)
                      [] tkind = "nanos" -> from_unix_nanos(tin, leap))
    /\ UNCHANGED <<tkind, tin, tout>>

\* unix_secs / unix_millis / unix_nanos of the Timestamp
TsUnix ==
    /\ tval # None
    /\ tval[1] # Panic
    /\ tout = None
    /\ tout' = Some(CASE tkind = "secs" -> unix_secs(tval[1])
                      [] tkind = "millis" -> unix_millis(tval[1])
                      [] tkind = "nanos" -> unix_nanos(tval[1]))
    /\ UNCHANGED <<tkind, tin, tval>>

(***************************************************************************)
(* The quit signal against a data-store update (main.rs:117-149)           *)
(***************************************************************************)
\* TomlDataRepository::save when its future is dropped at the await of step
\* at: the file contents that can be left behind.  The operation of a
\* tokio File in flight runs on a blocking thread and is not stopped by the
\* drop: at seek the file is untouched; at set_len the truncation has taken
\* place unless it had not started when the runtime went down; at write_all
\* and flush the file was truncated and the text is written as far as the
\* writes issued went.
save_dropped(m, old, at) ==
    CASE at = "seek"      -> {old}
      [] at = "set_len"   -> {old, <<>>}
      [] at = "write_all" -> Prefixes(ToToml(m))
      [] at = "flush"     -> Prefixes(ToToml(m))

QuitIdle ==
    /\ qstate = "none"
    /\ qold = None
    /\ qnew = None

\* main.rs:137  select! polls rx_command, web_app and patrol_app.run
QuitNew ==
    /\ qstate = "running"
    /\ qold = None
    /\ qnew = None

\* app.rs:113  the engine's update call returns
QuitUpdate(key, content, o) ==
    /\ qstate = "running"
    /\ update(key, content, o)
    /\ UNCHANGED quitVars

\* main.rs:138  _quit = rx_command => (): the select drops the future of
\* run, and with it the future of update (app.rs:113) that waits in save at
\* step at; main returns
QuitDuringUpdate(key, content, at) ==
    LET now == clock
        r == update_map(map, key, content, now)
    IN  /\ qstate = "running"
        /\ qstate' = "quit"
        /\ qold' = Some(file)
        /\ qnew' = Some(ToToml(r.map))
        /\ map' = r.map
        /\ file' \in save_dropped(r.map, file, at)
        /\ ret' = ret

\* the components added last are not in use
MoreIdle == TsIdle /\ QuitIdle

\* the components beside the engine are not in use
SideIdle == CfgIdle /\ BusIdle /\ HashIdle /\ WdIdle /\ MoreIdle

\* the fingerprint the store keeps for a content the engine has handled: the
\* engine hands over the text of its digest (app.rs:109-113), the store trims
\* and hashes what it is handed (toml_data_repository.rs:69-70)
StoredDigest(content) == Hash(Trim(Hash(Trim(content))))

\* the records a data file written by an earlier run can hold for an id
LoadedData ==
    { Data(None, None, 0), Data(Some(StoredDigest(<<"b">>)), Some(0), 0) }

\* TomlDataRepository::new on the data file an earlier run left behind
StoreLoaded ==
    /\ clock = 0
    /\ file \in {ToToml(m) : m \in UNION {[S -> LoadedData] : S \in SUBSET Ids}}
    /\ map = FromToml(file)
    /\ ret = Call("new", Ok(Unit))

Init ==
    /\ StoreNew
    /\ EngineNew
    /\ PoolIdle
    /\ ActorIdle
    /\ SelIdle
    /\ SideIdle

Next ==
    \/ AdmitBreak
    \/ Admit
    \/ Tick
    \/ TickConfigError
    \/ StartPoll
    \/ EndFanout
    \/ PollComplete
    \/ HandleResult
    \/ StreamEnd
    \/ Timeout
    \/ Report
    \/ ReportDataError
    \/ EngineAdvance

Spec == Init /\ [][Next]_vars

\* the engine takes its own steps whenever it can, the calls of the data
\* store return, and time passes; nothing is asked of the poll tasks
\* (PollComplete), which may never finish
LiveSpec ==
    /\ Spec
    /\ WF_vars(StartPoll)
    /\ WF_vars(EndFanout)
    /\ WF_vars(HandleResult)
    /\ WF_vars(StreamEnd)
    /\ WF_vars(Timeout)
    /\ WF_vars(EngineAdvance)

(***************************************************************************)
(* StoreSpec: any sequence of data-store calls                             *)
(***************************************************************************)
\* the engine is not running
EngineIdle ==
    /\ config = {}
    /\ events = <<>>
    /\ pc = "done"
    /\ limit = Some(0)
    /\ limit0 = Some(0)
    /\ nextTick = 0
    /\ deadline = 0
    /\ configs = get_all_configs({})
    /\ rem = {}
    /\ retry = 0
    /\ running = {}
    /\ chan = NoChan
    /\ polls = NoCount
    /\ upd = NoCount
    /\ nonErr = {}
    /\ expired = FALSE
    /\ lateCalls = 0
    /\ last = NoLast
    /\ ticks = 0
    /\ seen = NoSeen

StoreUpdate ==
    \E key \in Ids, content \in Contents, o \in SaveOutcomes :
        /\ update(key, content, o)
        /\ UNCHANGED <<clock, engineVars, apartVars>>

StoreUpdateMultiple ==
    \E batch \in Batches, o \in SaveOutcomes :
        \E keys \in Orders(DOMAIN batch) :
            /\ update_multiple(batch, keys, o)
            /\ UNCHANGED <<clock, engineVars, apartVars>>

StoreDelete ==
    \E key \in Ids, o \in SaveOutcomes :
        /\ delete(key, o)
        /\ UNCHANGED <<clock, engineVars, apartVars>>

StoreAdvance ==
    /\ Advance
    /\ UNCHANGED <<storeVars, engineVars, apartVars>>

StoreInit ==
    /\ StoreNew
    /\ EngineIdle
    /\ PoolIdle
    /\ ActorIdle
    /\ SelIdle
    /\ SideIdle

StoreNext ==
    \/ StoreUpdate
    \/ StoreUpdateMultiple
    \/ StoreDelete
    \/ StoreAdvance

StoreSpec == StoreInit /\ [][StoreNext]_vars

(***************************************************************************)
(* PoolSpec: tasks that take clients from the pool and give them back      *)
(***************************************************************************)
PoolTaskGet ==
    \E t \in Tasks :
        /\ PoolGet(t)
        /\ UNCHANGED <<clock, storeVars, engineVars, actorVars, selVars, sideVars>>

PoolTaskRecv ==
    \E t \in Tasks :
        /\ PoolRecv(t)
        /\ UNCHANGED <<clock, storeVars, engineVars, actorVars, selVars, sideVars>>

PoolTaskCancelled ==
    \E t \in Tasks :
        /\ PoolGetCancelled(t)
        /\ UNCHANGED <<clock, storeVars, engineVars, actorVars, selVars, sideVars>>

PoolTaskDrop ==
    \E t \in Tasks, path \in ExitPaths :
        /\ PoolItemDrop(t, path)
        /\ UNCHANGED <<clock, storeVars, engineVars, actorVars, selVars, sideVars>>

PoolInit ==
    /\ StoreNew
    /\ EngineIdle
    /\ PoolNew
    /\ ActorIdle
    /\ SelIdle
    /\ SideIdle

PoolNext ==
    \/ PoolTaskGet
    \/ PoolTaskRecv
    \/ PoolTaskCancelled
    \/ PoolTaskDrop

PoolSpec == PoolInit /\ [][PoolNext]_vars

(***************************************************************************)
(* ActorSpec: client handles that call update through the actor            *)
(***************************************************************************)
restOfActor == <<clock, engineVars, poolVars, selVars, sideVars>>

HandleUpdate ==
    \E c \in Clients, key \in Ids, content \in ActorContents :
        /\ ClientUpdate(c, key, content)
        /\ UNCHANGED <<storeVars, restOfActor>>

HandleReturn ==
    \E c \in Clients :
        /\ ClientReturn(c)
        /\ UNCHANGED <<storeVars, restOfActor>>

HandleCancelled ==
    \E c \in Clients :
        /\ ClientCancelled(c)
        /\ UNCHANGED <<storeVars, restOfActor>>

ActorTakes ==
    /\ ActorRecv
    /\ UNCHANGED <<storeVars, restOfActor>>

ActorApplies ==
    \E o \in SaveOutcomes :
        /\ ActorUpdate(o)
        /\ UNCHANGED restOfActor

ActorReplies ==
    /\ ActorReply
    /\ UNCHANGED <<storeVars, restOfActor>>

ActorEnds ==
    /\ ActorGone
    /\ UNCHANGED <<storeVars, restOfActor>>

ActorInit ==
    /\ StoreNew
    /\ EngineIdle
    /\ PoolIdle
    /\ ActorNew
    /\ SelIdle
    /\ SideIdle

ActorNext ==
    \/ HandleUpdate
    \/ HandleReturn
    \/ HandleCancelled
    \/ ActorTakes
    \/ ActorApplies
    \/ ActorReplies
    \/ ActorEnds

ActorSpec == ActorInit /\ [][ActorNext]_vars

\* the actor's task is spawned on the runtime and runs whenever it can
\* (data_repository_actor.rs:21), and the calls of the store return; the
\* task may still end at any time, and nothing is asked of the callers.
\* Each of the three steps changes what the task holds.
ActorLiveSpec ==
    /\ ActorSpec
    /\ WF_<<mbox, cur, applied>>(ActorTakes)
    /\ WF_<<mbox, cur, applied>>(ActorApplies)
    /\ WF_<<mbox, cur, applied>>(ActorReplies)

(***************************************************************************)
(* SelSpec: one call of SelectivePoller::poll_multiple, its stream consumed *)
(***************************************************************************)
restOfSel == <<clock, storeVars, engineVars, poolVars, actorVars, sideVars>>

SelCall ==
    /\ SelPollMultiple
    /\ UNCHANGED restOfSel

SelTaskEnds ==
    \E m \in Modes, id \in Ids, result \in PollResults :
        /\ SubComplete(m, id, result)
        /\ UNCHANGED restOfSel

SelStreamNext ==
    \E m \in Modes :
        /\ SelYield(m)
        /\ UNCHANGED restOfSel

SelStreamEnd ==
    /\ SelEnd
    /\ UNCHANGED restOfSel

SelInit ==
    /\ StoreNew
    /\ EngineIdle
    /\ PoolIdle
    /\ ActorIdle
    /\ SelNew
    /\ SideIdle

SelNext ==
    \/ SelCall
    \/ SelTaskEnds
    \/ SelStreamNext
    \/ SelStreamEnd

SelSpec == SelInit /\ [][SelNext]_vars

\* the caller keeps pulling the merged stream (app.rs:91 while let .. next()),
\* and every poll task runs to its end
SelLiveSpec ==
    /\ SelSpec
    /\ WF_vars(SelCall)
    /\ WF_vars(SelTaskEnds)
    /\ WF_vars(SelStreamNext)
    /\ WF_vars(SelStreamEnd)

\* App::run over a data file of an earlier run, the config file holding at
\* most one id
LoadedInit ==
    /\ StoreLoaded
    /\ EngineNew
    /\ Cardinality(config) <= 1
    /\ PoolIdle
    /\ ActorIdle
    /\ SelIdle
    /\ SideIdle

LoadedSpec == LoadedInit /\ [][Next]_vars

(***************************************************************************)
(* The config store on its own                                             *)
(***************************************************************************)
restOfCfg == <<clock, storeVars, engineVars, poolVars, actorVars, selVars, busVars, hashVars, wdVars, moreVars>>

CfgOpen ==
    \E o \in {"ok", "io"} :
        /\ CfgNew(o)
        /\ UNCHANGED restOfCfg

CfgRestart ==
    /\ CfgDrop
    /\ UNCHANGED restOfCfg

CfgRead ==
    /\ CfgGetAll
    /\ UNCHANGED restOfCfg

CfgUpdate ==
    \E id \in Ids, c \in Configs, o \in SaveOutcomes :
        /\ cfg_update(id, c, o)
        /\ UNCHANGED restOfCfg

CfgDelete ==
    \E id \in Ids, o \in SaveOutcomes :
        /\ cfg_delete(id, o)
        /\ UNCHANGED restOfCfg

CfgInit ==
    /\ StoreNew
    /\ EngineIdle
    /\ PoolIdle
    /\ ActorIdle
    /\ SelIdle
    /\ CfgStart
    /\ BusIdle
    /\ HashIdle
    /\ WdIdle
    /\ MoreIdle

CfgNext ==
    \/ CfgOpen
    \/ CfgRestart
    \/ CfgRead
    \/ CfgUpdate
    \/ CfgDelete

CfgSpec == CfgInit /\ [][CfgNext]_vars

(***************************************************************************)
(* The update broadcaster on its own                                       *)
(***************************************************************************)
restOfBus == <<clock, storeVars, engineVars, poolVars, actorVars, selVars, cfgVars, hashVars, wdVars, moreVars>>

BusEvent ==
    /\ BusPublish
    /\ UNCHANGED restOfBus

BusForward ==
    /\ BusDeal
    /\ UNCHANGED restOfBus

BusConnect ==
    \E w \in Sockets :
        /\ WsConnect(w)
        /\ UNCHANGED restOfBus

BusReceive(w) ==
    /\ WsRecv(w)
    /\ UNCHANGED restOfBus

BusInit ==
    /\ StoreNew
    /\ EngineIdle
    /\ PoolIdle
    /\ ActorIdle
    /\ SelIdle
    /\ CfgIdle
    /\ BusNew
    /\ HashIdle
    /\ WdIdle
    /\ MoreIdle

BusNext ==
    \/ BusEvent
    \/ BusForward
    \/ BusConnect
    \/ \E w \in Sockets : BusReceive(w)

BusSpec == BusInit /\ [][BusNext]_vars

\* the message_dealer task and the handler tasks are spawned on the runtime
\* and run whenever they can (main.rs:102, 166)
BusLiveSpec ==
    /\ BusSpec
    /\ WF_vars(BusForward)
    /\ \A w \in Sockets : WF_vars(BusReceive(w))

(***************************************************************************)
(* Hash on its own                                                         *)
(***************************************************************************)
restOfHash == <<clock, storeVars, engineVars, poolVars, actorVars, selVars, cfgVars, busVars, wdVars, moreVars>>

HashWrite ==
    /\ HashToString
    /\ UNCHANGED restOfHash

HashUpper ==
    \E j \in 1..(2 * HashLen) :
        /\ HashRecase(j)
        /\ UNCHANGED restOfHash

HashSpoil ==
    /\ HashDamage
    /\ UNCHANGED restOfHash

HashRead ==
    /\ HashParse
    /\ UNCHANGED restOfHash

HashInit ==
    /\ StoreNew
    /\ EngineIdle
    /\ PoolIdle
    /\ ActorIdle
    /\ SelIdle
    /\ CfgIdle
    /\ BusIdle
    /\ HashNew
    /\ WdIdle
    /\ MoreIdle

HashNext ==
    \/ HashWrite
    \/ HashUpper
    \/ HashSpoil
    \/ HashRead

HashSpec == HashInit /\ [][HashNext]_vars

(***************************************************************************)
(* WebDriverPoller on its own                                              *)
(***************************************************************************)
restOfWd == <<clock, storeVars, engineVars, actorVars, selVars, cfgVars, busVars, hashVars, moreVars>>

WdCall ==
    \E slots \in UNION {[S -> Tasks] : S \in SUBSET Ids} :
        /\ WdPollMultiple(slots)
        /\ UNCHANGED restOfWd

WdGets ==
    \E t \in Tasks :
        /\ WdTaskGet(t)
        /\ UNCHANGED restOfWd

WdPolls ==
    \E t \in Tasks :
        /\ WdTaskRecv(t)
        /\ UNCHANGED restOfWd

WdPolled ==
    \E t \in Tasks, result \in WdResults :
        /\ WdTaskPolled(t, result)
        /\ UNCHANGED restOfWd

WdEnds ==
    \E t \in Tasks :
        /\ WdTaskEnd(t)
        /\ UNCHANGED restOfWd

WdYields ==
    /\ WdTake
    /\ UNCHANGED restOfWd

WdStreamEnds ==
    /\ WdStreamEnd
    /\ UNCHANGED restOfWd

WdElapsed ==
    /\ WdTimeout
    /\ UNCHANGED restOfWd

WdInit ==
    /\ StoreNew
    /\ EngineIdle
    /\ PoolNew
    /\ ActorIdle
    /\ SelIdle
    /\ CfgIdle
    /\ BusIdle
    /\ HashIdle
    /\ WdNew
    /\ MoreIdle

WdNext ==
    \/ WdCall
    \/ WdGets
    \/ WdPolls
    \/ WdPolled
    \/ WdEnds
    \/ WdYields
    \/ WdStreamEnds
    \/ WdElapsed

WdSpec == WdInit /\ [][WdNext]_vars

\* the tasks are spawned on the runtime and run whenever they can
\* (webdriver_poller.rs:78), and each WebDriver command of a task comes to
\* an end; nothing is asked of the engine's side
WdLiveSpec ==
    /\ WdSpec
    /\ WF_vars(WdGets)
    /\ WF_vars(WdPolls)
    /\ WF_vars(WdPolled)
    /\ WF_vars(WdEnds)

(***************************************************************************)
(* Timestamp on its own                                                    *)
(***************************************************************************)
restOfTs == <<clock, storeVars, engineVars, poolVars, actorVars, selVars, cfgVars, busVars, hashVars, wdVars, quitVars>>

TsMake ==
    \E leap \in BOOLEAN :
        /\ TsFrom(leap)
        /\ UNCHANGED restOfTs

TsRead ==
    /\ TsUnix
    /\ UNCHANGED restOfTs

TsInit ==
    /\ StoreNew
    /\ EngineIdle
    /\ PoolIdle
    /\ ActorIdle
    /\ SelIdle
    /\ CfgIdle
    /\ BusIdle
    /\ HashIdle
    /\ WdIdle
    /\ TsNew
    /\ QuitIdle

TsNext ==
    \/ TsMake
    \/ TsRead

TsSpec == TsInit /\ [][TsNext]_vars

(***************************************************************************)
(* QuitSpec: the engine updates the store until quit cuts an update short  *)
(***************************************************************************)
restOfQuit == <<engineVars, poolVars, actorVars, selVars, cfgVars, busVars, hashVars, wdVars, tsVars>>

QuitUpdates ==
    \E key \in Ids, content \in Contents, o \in SaveOutcomes :
        /\ QuitUpdate(key, content, o)
        /\ UNCHANGED <<clock, restOfQuit>>

QuitCuts ==
    \E key \in Ids, content \in Contents, at \in SaveSteps :
        /\ QuitDuringUpdate(key, content, at)
        /\ UNCHANGED <<clock, restOfQuit>>

QuitAdvance ==
    /\ qstate = "running"
    /\ Advance
    /\ UNCHANGED <<storeVars, quitVars, restOfQuit>>

QuitInit ==
    /\ StoreNew
    /\ EngineIdle
    /\ PoolIdle
    /\ ActorIdle
    /\ SelIdle
    /\ CfgIdle
    /\ BusIdle
    /\ HashIdle
    /\ WdIdle
    /\ TsIdle
    /\ QuitNew

QuitNext ==
    \/ QuitUpdates
    \/ QuitCuts
    \/ QuitAdvance

QuitSpec == QuitInit /\ [][QuitNext]_vars

(***************************************************************************)
(* Properties of the data store, checked under StoreSpec                   *)
(***************************************************************************)
UpdateOps == {"update", "update_multiple"}

Mutators == UpdateOps \cup {"delete"}

\* the record of key has its last_updated set
Updated(m, key) == key \in DOMAIN m /\ m[key].last_updated # None

\* C1: update(id, h) returns Some(now) exactly when the store held no record
\* for id or a different hash, and None otherwise; last_updated becomes now
\* in the first case and keeps its value in the second.
C1_UpdateReturnsTimestamp ==
    [][\A key \in Ids, content \in Contents :
          (update(key, content, "ok") /\ clock' = clock) =>
              LET h == Hash(Trim(content))
                  changed == key \notin DOMAIN map \/ map[key].hash # Some(h)
              IN  /\ changed => /\ ret'.res = Ok(Some(clock))
                                /\ map'[key].last_updated = Some(clock)
                  /\ ~changed => /\ ret'.res = Ok(None)
                                 /\ map'[key].last_updated = map[key].last_updated
      ]_vars

\* C2: a mutator whose save fails returns the persistence error and leaves
\* the in-memory map equal to the map before the call.
C2_RestoreOnFailure ==
    [][(ret'.op \in Mutators /\ ~ret'.res.ok) =>
          (map' = map /\ ret'.res = Err(IoError))]_vars

\* a failed batch over both ids has acted on a store that holds records
C2_Witness ==
    /\ ret.op = "update_multiple"
    /\ ~ret.res.ok
    /\ DOMAIN map = Ids

\* C3: after every mutator call the file is the serialization of the
\* in-memory map: written on success, left alone (with the map restored) on
\* failure.
C3_FileAgreesWithMemory == file = ToToml(map)

\* C4: every record with last_updated set has last_updated <= last_checked.
C4_UpdatedNotAfterChecked ==
    \A key \in DOMAIN map :
        Updated(map, key) => map[key].last_updated[1] <= map[key].last_checked

\* an unchanged content was seen again at a later time
C4_Witness ==
    /\ ret.op \in UpdateOps
    /\ \E key \in DOMAIN map :
           Updated(map, key) /\ map[key].last_updated[1] < map[key].last_checked

\* C5: across update calls the last_updated of an id never decreases and
\* never goes from set to absent.
C5_LastUpdatedMonotonic ==
    [][ret'.op \in UpdateOps =>
          \A key \in Ids :
              Updated(map, key) =>
                  /\ Updated(map', key)
                  /\ map[key].last_updated[1] <= map'[key].last_updated[1]
      ]_vars

\* an update made after time 0 has set last_updated
C5_Witness ==
    /\ ret.op \in UpdateOps
    /\ \E key \in DOMAIN map : Updated(map, key) /\ map[key].last_updated[1] > 0

(***************************************************************************)
(* Properties of the engine, checked under Spec                            *)
(***************************************************************************)
\* C6: when every poll of an id fails and the deadline does not elapse, the
\* tick reaches its report with the id passed to poll_multiple exactly 3
\* times and no data-store update issued for it.
C6_ThreeAttemptsOnError ==
    pc = "report" =>
        \A id \in DOMAIN configs :
            (id \notin nonErr /\ ~expired) => (polls[id] = 3 /\ upd[id] = 0)

\* the tick of a target whose polls all failed has reached the report
C6_Witness ==
    /\ pc = "report"
    /\ "a" \in DOMAIN configs
    /\ "a" \notin nonErr
    /\ ~expired
    /\ polls["a"] = 3

\* C7: once the deadline has elapsed on a stream, no further poll_multiple
\* call is made in that tick.
C7_NoPollAfterDeadline == lateCalls = 0

\* C7 as amended: after the deadline has elapsed on a stream, a further
\* poll_multiple call is made only while retry is positive and rem is not
\* empty, and at most 2 such calls are made in the tick.
C7_BoundedPollsAfterDeadline ==
    [][lateCalls' > lateCalls =>
          (expired /\ 0 < retry /\ rem # {} /\ lateCalls' <= 2)]_vars

\* a poll_multiple call made after the deadline elapsed
C7_Witness == expired /\ lateCalls >= 1 /\ pc = "stream"

\* C8: an empty (all-whitespace) poll result removes the id from rem.
C8_EmptyRemovedFromRem == last.kind = "empty" => last.id \notin rem

\* C9: a failed data-store update leaves the id in rem.
C9_StoreErrorStaysInRem == last.kind = "store_err" => last.id \in rem

\* the engine takes a result whose content is all whitespace
TakesBlank ==
    /\ pc = "stream"
    /\ \E m \in Modes :
           /\ chan[m] # <<>>
           /\ chan'[m] = Tail(chan[m])
           /\ Head(chan[m]).result.ok
           /\ Trim(Head(chan[m]).result.val) = <<>>

\* C10: handling an all-whitespace poll result changes neither the map nor
\* the file of the data store and emits no DocUpdate event.
C10_BlankLeavesStore ==
    [][TakesBlank => (map' = map /\ file' = file /\ events' = events)]_vars

\* a blank result was handled for an id that has a record
C10_Witness == last.kind = "empty" /\ last.id \in DOMAIN map

(***************************************************************************)
(* Properties of the run loop, checked under Spec                          *)
(***************************************************************************)
\* C11: an engine created with limit Some(n) never begins more than n ticks,
\* every begun tick has been counted off the limit, and when run returns
\* Ok(()) it has begun exactly n ticks.
C11_LimitedTicks ==
    limit0 # None =>
        /\ limit # None
        /\ ticks <= limit0[1]
        /\ ticks + limit[1] =
              IF pc = "tick" THEN limit0[1] - 1 ELSE limit0[1]
        /\ pc = "done" => ticks = limit0[1]

\* a run limited to one tick has returned Ok(()) after that one tick
C11_Witness ==
    /\ pc = "done"
    /\ limit0 = Some(1)
    /\ ticks = 1
    /\ last.kind = "stored"

\* C12: when the config store's get_all fails at the start of a tick, run
\* returns that error at once: no poll is started and no update is issued in
\* that tick, and nothing of the engine or the store changes afterwards.
C12_ConfigErrorEndsRun ==
    [][last'.kind = "config_err" =>
          /\ pc' = "failed"
          /\ pc \in {"tick", "failed"}
          /\ polls' = NoCount /\ upd' = NoCount
          /\ running' = running /\ chan' = chan
          /\ UNCHANGED <<storeVars, events>>
          /\ pc = "failed" => UNCHANGED <<storeVars, engineVars>>]_vars

\* the second tick failed on its config snapshot after the first had stored
C12_Witness ==
    /\ pc = "failed"
    /\ last = ConfigErr
    /\ ticks = 2
    /\ \E id \in Ids : Updated(map, id)

\* C13: a result the engine takes from the stream makes it send exactly one
\* DocUpdate event, with the id, the url of the id in the snapshot of the tick
\* and the time of the update, when the update it issues succeeds and changes
\* the stored digest of the id; every other result makes it send none.
C13_EventPerChange ==
    [][\A m \in Modes :
          (/\ pc = "stream" /\ pc' = "stream"
           /\ chan[m] # <<>> /\ chan'[m] = Tail(chan[m])) =>
              LET id == Head(chan[m]).id
                  changed == /\ upd'[id] = upd[id] + 1
                             /\ ret'.res.ok
                             /\ \/ id \notin DOMAIN map
                                \/ map'[id].hash # map[id].hash
              IN  IF changed
                  THEN events' = Append(events, [id |-> id,
                                                 url |-> configs[id].url,
                                                 timestamp |-> clock])
                  ELSE events' = events]_vars

\* C14: when an update of the engine succeeds for an id with the content of
\* the id's previous successful update, last_updated keeps the value that
\* earlier update gave it and last_checked becomes the time of this update;
\* with a first or a different content, last_updated becomes that time too.
C14_RepeatKeepsLastUpdated ==
    [][\A id \in Ids :
          (upd'[id] = upd[id] + 1 /\ last' = [kind |-> "stored", id |-> id]) =>
              /\ Updated(map', id)
              /\ map'[id].last_checked = clock
              /\ map'[id].hash = Some(StoredDigest(seen'[id][1]))
              /\ IF seen'[id] = seen[id]
                 THEN /\ Updated(map, id)
                      /\ map'[id].last_updated = map[id].last_updated
                 ELSE map'[id].last_updated = Some(clock)]_vars

\* the second tick has stored the content of the first again, later
C14_Witness ==
    \E id \in Ids :
        /\ last = [kind |-> "stored", id |-> id]
        /\ ticks = 2
        /\ Updated(map, id)
        /\ map[id].last_updated = Some(0)
        /\ map[id].last_checked = 1
        /\ map[id].hash = Some(StoredDigest(seen[id][1]))

\* the third poll_multiple call of the tick held the id, so its first two
\* attempts brought no content, and no stream of the tick was abandoned
ThirdAttempt(id) ==
    /\ polls[id] = 3
    /\ ~expired

Holders(c) == {t \in Tasks : lease[t] = Some(c)}

\* the places of the channel that hold the client c
Places(c) == {i \in DOMAIN idle : idle[i] = c}

\* C16: every client is either once in the pool's channel or held by exactly
\* one PoolItem, the idle clients and the live PoolItems together number the
\* ports of the pool, and a PoolItem that is dropped, whichever way its task
\* ends, puts its client back into the channel exactly once.
C16_PoolConservation ==
    /\ [](/\ \A c \in 1..ports : Cardinality(Places(c)) + Cardinality(Holders(c)) = 1
          /\ Len(idle) + Cardinality({t \in Tasks : lease[t] # None}) = ports)
    /\ [][\A t \in Tasks :
            (lease[t] # None /\ lease'[t] = None) =>
                idle' = Append(idle, lease[t][1])]_vars

\* a PoolItem was dropped by a panicking task while another task holds a client
C16_Witness ==
    /\ lastExit = "panic"
    /\ ports = 2
    /\ idle = <<1>>
    /\ \E t \in Tasks : lease[t] = Some(2)

\* C17: get() returns only when the channel holds a client, the task it
\* returns to is the one that entered get() first among those inside it, and
\* the client it returns is the oldest one of the channel.
C17_GetIsFifo ==
    [][\A t \in Tasks :
          (lease[t] = None /\ lease'[t] # None) =>
              /\ idle # <<>>
              /\ lease'[t] = Some(Head(idle))
              /\ t = Head(arrival)]_vars

\* a task got a client after two others had queued behind it, and the
\* next of them now waits for a client to come back
C17_Witness ==
    /\ lastGet # None
    /\ lastGet[1].behind = 2
    /\ idle = <<>>
    /\ holder # None
    /\ Len(waiters) = 1

(***************************************************************************)
(* Properties of the data-store actor, checked under ActorSpec             *)
(***************************************************************************)
\* s is an initial part of t
IsPrefix(s, t) == Len(s) <= Len(t) /\ SubSeq(t, 1, Len(s)) = s

\* C18: the store executes the requests in the order they entered the
\* actor's channel, those of one handle in the order the handle sent them,
\* and it starts on a request only while the actor holds that request and
\* every request executed before has had its reply sent (or its caller gone).
C18_OneAtATimeInOrder ==
    /\ [](/\ IsPrefix(applied, arrived)
          /\ \A i, j \in DOMAIN applied :
                (i < j /\ applied[i][1] = applied[j][1]) => applied[i][2] < applied[j][2])
    /\ [][(storeVars' # storeVars \/ applied' # applied) =>
             /\ cur # None
             /\ cur[1].result = None
             /\ applied' = Append(applied, cur[1].msg.req)
             /\ \A i \in DOMAIN applied : reply[applied[i]].st # "open"]_vars

\* two requests of one handle were executed after a request of the other
C18_Witness ==
    /\ Len(applied) = 3
    /\ applied[1][1] # applied[2][1]
    /\ applied[2][1] = applied[3][1]
    /\ reply[applied[3]].st = "sent"

\* C19: a call through a handle returns SendError exactly when the actor's
\* task is gone at the moment of the send, RecvError exactly when the sender
\* of its reply channel was dropped without a reply, and otherwise the
\* result the store returned for that request, an error of the store
\* wrapped as DataRepositoryError.
C19_ClientResult ==
    [][\A c \in Clients :
          out'[c] # out[c] =>
              LET n == out'[c][1].n
                  res == out'[c][1].res
                  r == <<c, n>>
              IN  /\ (res = Err(SendError)) <=> (call[c] = None /\ ~alive)
                  /\ (res = Err(RecvError)) <=>
                        (call[c] = Some(n) /\ reply[r].st = "dropped")
                  /\ (res # Err(SendError) /\ res # Err(RecvError)) =>
                        /\ inner[r] # None
                        /\ IF inner[r][1].ok
                           THEN res = inner[r][1]
                           ELSE /\ ~res.ok
                                /\ res.val = <<"DataRepositoryError", inner[r][1].val>>]_vars

\* one handle got SendError, the other the wrapped error of the store
C19_Witness ==
    /\ out["c1"] # None
    /\ out["c1"][1].res = Err(SendError)
    /\ out["c2"] # None
    /\ out["c2"][1].res = Err(<<"DataRepositoryError", IoError>>)

(***************************************************************************)
(* Properties of SelectivePoller::poll_multiple, checked under SelSpec     *)
(***************************************************************************)
\* the places of the merged stream that hold a result of id
Yields(id) == {i \in DOMAIN merged : merged[i].id = id}

\* C20: every target of the map goes to exactly one subpoller, the
\* WebDriverPoller when its mode is Full and the HttpPoller when it is
\* Simple; the merged stream never yields two results for an id and, when it
\* has ended, has yielded exactly one for every id of the map and none for
\* another id; an error it yields carries the tag of the subpoller the id
\* went to.
C20_RoutedOncePerId ==
    /\ spc # "call" =>
          \A id \in DOMAIN given :
              /\ Cardinality({m \in Modes : id \in handed[m]}) = 1
              /\ \A m \in Modes :
                    id \in handed[m] =>
                        Subpoller(m) = IF given[id] = "full" THEN "WebDriverPoller"
                                       ELSE "HttpPoller"
    /\ \A m \in Modes : handed[m] \subseteq DOMAIN given
    /\ \A id \in Ids : Cardinality(Yields(id)) <= 1
    /\ spc = "ended" =>
          \A id \in Ids :
              Cardinality(Yields(id)) = IF id \in DOMAIN given THEN 1 ELSE 0
    /\ \A i \in DOMAIN merged :
          ~merged[i].result.ok =>
              merged[i].result.val[1] =
                  IF given[merged[i].id] = "full" THEN "FullModePollerError"
                  ELSE "SimpleModePollerError"

\* the stream has ended after an error of each subpoller
C20_Witness ==
    /\ spc = "ended"
    /\ Len(merged) = 2
    /\ handed["full"] # {} /\ handed["simple"] # {}
    /\ \A i \in DOMAIN merged : ~merged[i].result.ok

\* the substream m has ended: its tasks are done and its channel is empty
SubEnded(m) == subrun[m] = {} /\ subchan[m] = <<>>

\* C21: the merged stream ends only when both substreams have ended, by then
\* it has yielded the result of every id either substream was given, however
\* early the other substream ended, and once the tasks of both substreams
\* are done it does end.
C21_EndsWithBoth ==
    /\ [](spc = "ended" =>
            /\ \A m \in Modes : SubEnded(m)
            /\ \A m \in Modes : \A id \in handed[m] : Yields(id) # {})
    /\ [][(spc # "ended" /\ spc' = "ended") =>
             \A m \in Modes : SubEnded(m)]_vars
    /\ (spc = "merging" /\ \A m \in Modes : subrun[m] = {}) ~> (spc = "ended")

\* the merged stream has ended after the simple-mode substream had ended
\* first and the full-mode one delivered a content afterwards
C21_Witness ==
    /\ spc = "ended"
    /\ Len(merged) = 2
    /\ merged[1].id \in handed["simple"]
    /\ merged[2].id \in handed["full"]
    /\ merged[2].result.ok

(***************************************************************************)
(* Properties of the report step, checked under LoadedSpec                 *)
(***************************************************************************)
\* C22: the report step of a tick ends normally (the engine goes on to its
\* next loop iteration) also when the data store holds a record with a
\* last_updated for an id that is not in the tick's config snapshot.
C22_OrphansTolerated ==
    [][(pc = "report" /\ pc' # pc /\ ~(Listed(map) \subseteq DOMAIN configs))
         => pc' = "loop"]_vars

(***************************************************************************)
(* Properties of the config store, checked under CfgSpec                   *)
(***************************************************************************)
\* C23: for every valid config map x, when the config file holds what a
\* save of x wrote, the store that TomlConfigRepository::new opens on it
\* answers get_all() with x.
C23_LoadOfSave ==
    [][\A x \in ConfigMaps :
          (cache = None /\ cache' # None /\ cfile = Saved(x))
              => cfg_get_all(cache') = x]_vars

\* C24: an update or delete of the config store whose save fails leaves the
\* in-memory map as it was before the call and returns the error; a delete
\* that succeeds returns the config stored for id before (or none) and the
\* id is gone from the map.
C24_ConfigRestore ==
    [][\A id \in Ids, o \in SaveOutcomes :
          /\ ((\E c \in Configs : cfg_update(id, c, o)) /\ o # "ok")
                => (cache' = cache /\ ~cret'.res.ok)
          /\ (cfg_delete(id, o) /\ o # "ok")
                => (cache' = cache /\ ~cret'.res.ok)
          /\ (cfg_delete(id, o) /\ o = "ok")
                => /\ cret'.res.ok
                   /\ cret'.res.val =
                        (IF id \in DOMAIN cache[1]
                         THEN Some(IntoConfig(cache[1][id])) ELSE None)
                   /\ id \notin DOMAIN cache'[1]]_vars

\* a delete of a stored id has failed on its save and the id is still there
C24_Witness ==
    /\ cret.op = "delete"
    /\ ~cret.res.ok
    /\ cache # None
    /\ cret.key \in DOMAIN cache[1]
    /\ cfile # ToToml(cache[1])

(***************************************************************************)
(* Properties of the update broadcaster, checked under BusLiveSpec and     *)
(* BusSpec                                                                 *)
(***************************************************************************)
\* the client w has been sent the message of the k-th event
WsGot(w, k) == \E i \in DOMAIN got[w] : got[w][i] = Json(DocUpdate(k))

\* C25 as stated: every connected WebSocket client receives every DocUpdate
\* event published after the moment it subscribed.
C25_EveryEventReceived ==
    \A w \in Sockets, k \in 1..MaxEvents :
        (wsub[w] = "open" /\ since[w] < k /\ k <= published) ~> WsGot(w, k)

\* C25 amended: a connected client is sent the messages of the broadcast
\* channel in order and without gaps from its subscription on, and every
\* event published after it subscribed reaches it unless the client has
\* fallen more than the channel's capacity behind.
C25_ReceivedUnlessLagged ==
    /\ [](\A w \in Sockets : wsub[w] = "open" =>
            /\ got[w] = SubSeq(bsent, cursor[w] - Len(got[w]), cursor[w] - 1)
            /\ cursor[w] - Len(got[w]) <= since[w] + 1)
    /\ \A w \in Sockets, k \in 1..MaxEvents :
          (wsub[w] = "open" /\ since[w] < k /\ k <= published)
              ~> (WsGot(w, k) \/ wsub[w] = "lagged")

\* a client that subscribed after the first event has been sent the two
\* events that followed
C25_Witness ==
    /\ wsub["w1"] = "open"
    /\ since["w1"] = 1
    /\ WsGot("w1", 2)
    /\ WsGot("w1", 3)
    /\ ~WsGot("w1", 1)

\* C26: the broadcast channel holds at most its capacity of events, and a
\* subscriber that has fallen more than that behind loses the oldest events
\* only: its receiver moves to the oldest event still held and it goes on
\* receiving.
C26_LaggedGoesOn ==
    /\ [](Len(bsent) - OldestHeld(bsent) + 1 <= Capacity)
    /\ [][\A w \in Sockets :
             (wsub[w] = "open" /\ cursor[w] < OldestHeld(bsent)
                 /\ cursor'[w] # cursor[w])
                 => (wsub'[w] = "open" /\ cursor'[w] = OldestHeld(bsent))]_vars

(***************************************************************************)
(* Properties of Hash, checked under HashSpec                              *)
(***************************************************************************)
LowerHex == (48..57) \cup (97..102)

\* the text with every upper-case letter put in lower case
Lowered(s) == [j \in DOMAIN s |-> IF s[j] \in 65..90 THEN s[j] + 32 ELSE s[j]]

\* C27: the text to_string() writes for a hash has two lower-case hex digits
\* per byte, and from_hash_str of that text, with its letters in either
\* case, gives the hash back.
C27_HashRoundTrip ==
    /\ [](( hres # None /\ Lowered(htext) = Display(hin))
             => (hres[1].ok /\ hres[1].val = hin))
    /\ [][(htext = <<>> /\ htext' # <<>>)
             => /\ Len(htext') = 2 * HashLen
                /\ \A j \in DOMAIN htext' : htext'[j] \in LowerHex]_vars

\* the text of a hash with a letter in each half, one of them put in upper
\* case, has been parsed back to the hash
C27_Witness ==
    /\ hin = <<171>>
    /\ htext = <<65, 98>>
    /\ hres # None
    /\ hres[1].ok
    /\ hres[1].val = hin

(***************************************************************************)
(* Properties of the fan-out of a tick, checked under Spec                 *)
(***************************************************************************)
\* C28: within a tick an id that has left rem stays out of it, is in no
\* later poll_multiple call and gets no further update, so every id gets at
\* most one data-store update per tick; and an id is in at most one call per
\* retry iteration.
C28_OutcomeAbsorbing ==
    /\ [](\A id \in Ids :
            /\ upd[id] <= 1
            /\ upd[id] = 1 => (id \notin rem /\ id \notin running)
            /\ polls[id] <= (RetryInit - retry) + (IF pc = "stream" THEN 1 ELSE 0))
    /\ [][\A id \in Ids :
             (ticks' = ticks /\ id \in DOMAIN configs /\ id \notin rem)
                 => /\ id \notin rem'
                    /\ id \notin running'
                    /\ polls'[id] = polls[id]
                    /\ upd'[id] = upd[id]]_vars

\* a was stored in the first call of the tick; the second call, one retry
\* later, holds only b
C28_Witness ==
    /\ pc = "stream"
    /\ upd["a"] = 1
    /\ polls["a"] = 1
    /\ polls["b"] = 2
    /\ retry = RetryInit - 1
    /\ running = {"b"}

\* C30: an update of a tick is issued only for a result the engine takes
\* from the stream before the deadline of the tick has passed.
C30_NoUpdateAfterDeadline ==
    [][\A id \in Ids : upd'[id] > upd[id] => clock < deadline]_vars

(***************************************************************************)
(* Properties of WebDriverPoller under time-outs, checked under WdSpec     *)
(***************************************************************************)
\* the task t belongs to a call whose stream was dropped on a time-out
Abandoned(t) == wjob[t] # None /\ wjob[t][1].call \in wdropped

\* C29: once the stream of a poll_multiple call has been dropped on a
\* time-out, the tasks of that call do nothing further and hold no client of
\* the pool, and no two tasks of different calls poll the same id at the
\* same time.
C29_AbandonedWorkDropped ==
    /\ [](\A t \in Tasks : Abandoned(t) => lease[t] = None)
    /\ [](\A t, u \in Tasks :
            (wstage[t] = "polling" /\ wstage[u] = "polling" /\ t # u)
                => wjob[t][1].id # wjob[u][1].id)
    /\ [][\A t \in Tasks : Abandoned(t) => wstage'[t] = wstage[t]]_vars

(***************************************************************************)
(* Properties of the engine's ticks, checked under Spec                    *)
(***************************************************************************)
\* C31: the instants of the ticks are the period boundaries 0, Period,
\* 2 * Period, .., one tick per boundary; a tick is taken only when its
\* boundary has come, its deadline is the next boundary, and when it is
\* taken the engine reads no stream of the tick before; after a tick that
\* timed out with ids left in rem the next boundary has come already when
\* the engine asks for the next tick.
C31_NextTickOnBoundary ==
    /\ [](/\ nextTick = ticks * Period
          /\ (pc = "tick" /\ expired => clock >= nextTick)
          /\ (pc \in {"loop", "tick"} => running = {} /\ chan = NoChan))
    /\ [][ticks' # ticks =>
             /\ ticks' = ticks + 1
             /\ clock >= nextTick
             /\ deadline' = nextTick + Period
             /\ nextTick' = deadline'
             /\ pc = "tick"]_vars

\* a tick timed out with an id left in rem, its fan-out and report are over
\* and the engine asks for the second tick
C31_Witness ==
    /\ pc = "tick"
    /\ ticks = 1
    /\ expired
    /\ rem # {}
    /\ retry = 0

\* C33: when the report cannot read the data store the engine goes back to
\* the head of its loop with nothing else changed: run does not end with an
\* error there, the tick stays counted against the limit, and the next tick
\* is admitted as after any other tick.  run ends with an error only from
\* the read of the config store at the start of a tick.
C33_DataReadErrorNotFatal ==
    /\ [](last = DataReadErr =>
            /\ pc \in {"loop", "tick", "done"}
            /\ limit0 # None =>
                 limit[1] = limit0[1] - ticks - (IF pc = "tick" THEN 1 ELSE 0))
    /\ [][(pc = "report" /\ last' = DataReadErr) =>
             /\ pc' = "loop"
             /\ limit' = limit
             /\ ticks' = ticks
             /\ map' = map
             /\ file' = file
             /\ events' = events]_vars
    /\ [][(pc' = "failed" /\ pc # "failed") => (pc = "tick" /\ last' = ConfigErr)]_vars

\* the report of the first tick could not read the data store, and the
\* engine has admitted the second tick
C33_Witness ==
    /\ last = DataReadErr
    /\ ticks = 1
    /\ pc = "tick"

(***************************************************************************)
(* Properties of the engine, checked under LiveSpec                        *)
(***************************************************************************)
\* C34: the fan-out of a tick comes to its end and the tick reaches the
\* report, whether or not the poll tasks ever finish, for every tick whose
\* deadline lies within the time of the model; on the way no id is handed
\* to poll_multiple more than RetryInit times, and at most RetryInit - 1
\* calls are made after the deadline has passed.
C34_FanoutTerminates ==
    /\ [](/\ \A id \in Ids : polls[id] <= RetryInit
          /\ lateCalls <= RetryInit - 1
          /\ retry \in 0..RetryInit)
    /\ (pc \in {"while", "stream"} /\ deadline <= MaxTime) ~> (pc = "report")

\* RetryInit calls were made for an id in one tick, none of which gave a
\* result, and the tick is at its report
C34_Witness ==
    /\ pc = "report"
    /\ expired
    /\ retry = 0
    /\ \E id \in rem : polls[id] = RetryInit /\ id \notin nonErr

(***************************************************************************)
(* Properties of Timestamp, checked under TsSpec                           *)
(***************************************************************************)
\* C39: making a Timestamp from a non-negative unix time in seconds,
\* milliseconds or nanoseconds never panics, and reading the Timestamp back
\* in the same unit gives the same number.
C39_UnixRoundTrip ==
    /\ (tval # None => tval[1] # Panic)
    /\ (tout # None => tout[1] = tin)

\* the position in the order of emission of a serialized event
EmittedAt(msg) == msg[4]

\* C38: what the source channel holds and what the dealer has republished
\* are, in this order, the events the engine emitted, each once; and every
\* subscriber receives events in the order of their emission, none twice.
C38_EmissionOrder ==
    /\ bsent \o [i \in 1..Len(srcq) |-> Json(srcq[i])]
         = [k \in 1..published |-> Json(DocUpdate(k))]
    /\ \A w \in Sockets : \A i, j \in DOMAIN got[w] :
           i < j => EmittedAt(got[w][i]) < EmittedAt(got[w][j])

\* a subscriber has received three events while further events were emitted
C38_Witness ==
    \E w \in Sockets :
        /\ Len(got[w]) >= 3
        /\ published > Len(bsent)

\* C32: a task holds a session only while it polls or loads about:blank, and
\* a session goes back to the pool only from a task that has the result of
\* its poll, Ok or Err, and has gone on to load about:blank.
C32_BlankBeforeReturn ==
    /\ [](\A t \in Tasks : lease[t] # None => wstage[t] \in {"polling", "blank"})
    /\ [][\A t \in Tasks :
            lease[t] # None /\ lease'[t] = None
                => /\ wstage[t] = "blank"
                   /\ wjob[t][1].result \in WdResults
                   /\ idle' = Append(idle, lease[t][1])]_vars

\* a task whose poll failed has sent its result and returned its session
C32_Witness ==
    /\ lastExit = "return"
    /\ \E i \in DOMAIN wchan : ~wchan[i].result.ok

(***************************************************************************)
(* Properties of WebDriverPoller, checked under WdLiveSpec                 *)
(***************************************************************************)
\* C35: every session a task holds is returned in the end, also when the
\* task belongs to a call whose stream was dropped: from some point on no
\* task holds a session and the pool has all its sessions idle (so whatever
\* session is held at any time is returned later).
C35_LeasesReturned ==
    <>[](/\ \A t \in Tasks : lease[t] = None
         /\ Len(idle) = ports)

\* a task of a dropped call has returned its session: the call is dropped,
\* none of its tasks is left, and the pool is whole
C35_Witness ==
    /\ ports > 0
    /\ wcall \in wdropped
    /\ lastExit = "return"
    /\ TasksOf(wcall) = {}
    /\ Len(idle) = ports

(***************************************************************************)
(* Properties of the data-store actor, checked under ActorLiveSpec         *)
(***************************************************************************)
\* the requests the store has executed
Executed == {applied[i] : i \in DOMAIN applied}

\* C36: while the actor's task lives, a request that was sent stays with
\* the actor until the store has executed it, whether or not its caller
\* still waits; a reply that finds its receiver gone changes nothing but
\* frees the actor for the next message; and in the end every request sent
\* has been executed, in the order sent.
C36_CancelledCallerStillServed ==
    /\ [](alive => \A i \in DOMAIN arrived : arrived[i] \in Held \cup Executed)
    /\ [][(cur # None /\ cur[1].result # None /\ reply[cur[1].msg.req].st = "rx_gone"
             /\ alive' /\ cur' # cur)
            => /\ cur' = None
               /\ reply' = reply
               /\ mbox' = mbox
               /\ storeVars' = storeVars]_vars
    /\ <>[](alive => applied = arrived)

\* the store executed a request whose caller had gone before the reply, and
\* after it a request whose caller got the reply
C36_Witness ==
    /\ alive
    /\ \E i, j \in DOMAIN applied :
          /\ i < j
          /\ reply[applied[i]].st = "rx_gone"
          /\ reply[applied[j]].st = "sent"

(***************************************************************************)
(* Properties of quit, checked under QuitSpec                              *)
(***************************************************************************)
\* C37: after quit has cut an update of the data store short, the data
\* file holds the whole text from before that update or the whole text the
\* update was to write.
C37_OldOrNewSnapshot ==
    qstate = "quit" => file \in {qold[1], qnew[1]}
====
